---------------------------- MODULE Spec2Model ----------------------------
(***************************************************************************)
(* State-machine model of the cocotb-cpp coroutine scheduler and test      *)
(* runner (src/src/cocotb.h).                                              *)
(*                                                                         *)
(* One action per simulator callback (trampoline).  Each action runs the   *)
(* whole handler: the drain of the ready queue, every coroutine resumed in *)
(* it up to its next suspension, test completion, the teardown sweep and   *)
(* the start of the next test.  Coroutine bodies are small instruction     *)
(* lists (Prog); coroutine frames are numbered in allocation order and a   *)
(* destroyed frame keeps its last contents so that a dangling access can   *)
(* be recognised.  A dangling read returns a value chosen by the           *)
(* environment (the action's parameter u), or aborts the process.          *)
(***************************************************************************)
EXTENDS Integers, Sequences, FiniteSets, TLC

VARIABLES
    frames,              \* coroutine frames ever allocated (promise + body state)
    ready,               \* Scheduler::ready_
    pending_writes,      \* Scheduler::pending_writes_
    rw_cb_pending,       \* Scheduler::rw_cb_pending_
    in_readonly,         \* Scheduler::in_readonly_
    need_rw_after_ro,    \* Scheduler::need_rw_after_ro_
    active_coroutines,   \* Scheduler::active_coroutines_
    tests,               \* TestRunner::tests_
    results,             \* TestRunner::results_
    current_test_index,  \* TestRunner::current_test_index_
    current_test_handle, \* TestRunner::current_test_handle_
    started,             \* on_sim_start has run
    sig,                 \* simulator: signal values
    timers,              \* simulator: registered timed callbacks
    edges,               \* simulator: registered value-change callbacks
    rw_regs,             \* simulator: outstanding read-write registrations
    ro_regs,             \* simulator: outstanding read-only registrations
    nt_regs,             \* simulator: next-time registrations (nt_due: due now)
    nt_due,
    finish_calls,        \* number of gpi_finish calls
    report_calls,        \* number of report_results calls
    exit_code,           \* 0: running, 1: std::exit(1) was called
    aborted,             \* the process died in undefined behaviour
    now,                 \* simulator: current simulation time, in ticks
    conv,                \* a Timer under conversion: its arguments and ticks
    gpi_fail_at,         \* simulator: which of the coming timed or value-change
                         \* registrations it refuses (0: none, 1: the next)
    dut,                 \* a Handle object and the hierarchy it is looked up in
    clock,               \* the arguments of Clock(dut, period, unit), and where
                         \* the simulator is when a Clock body runs step by step
    bridge,              \* run_python_test: the script it drives, its locals
                         \* and what it has done for each yielded token
    trace                \* observation record (history of what the code did)

vars == <<frames, ready, pending_writes, rw_cb_pending, in_readonly,
          need_rw_after_ro, active_coroutines, tests, results,
          current_test_index, current_test_handle, started, sig, timers,
          edges, rw_regs, ro_regs, nt_regs, nt_due, finish_calls,
          report_calls, exit_code, aborted, now, conv, gpi_fail_at, dut,
          clock, bridge, trace>>

-----------------------------------------------------------------------------
(* Bounds *)

\* Longest list of registered tests.
MaxTests == 2

\* Number of JoinHandle locals a coroutine frame has room for.
NSlots == 2
MaxFailAt == 3
MaxCalls == 3

Signals == {"h", "g", "clk"}

\* What a dangling access does: reads as true, reads as false, or aborts.
UBOutcomes == {"true", "false", "abort"}

-----------------------------------------------------------------------------
(* Coroutine bodies.  An instruction is [op, a, b]:                        *)
(*   write  a=signal b=value      h.value = v                              *)
(*   timer  a=delay  b=unit       co_await Timer(a, b)                     *)
(*   edge   a=signal              co_await RisingEdge(a)                   *)
(*   ro                           suspend via Scheduler::schedule_readonly *)
(*   spawn  a=body   b=slot       slot = start_soon(a(dut))                *)
(*   join   b=slot                co_await slot                            *)
(*   drop   b=slot                slot's JoinHandle is destroyed           *)
(*   await  a=body                co_await a(dut)                          *)
(*   read   a=signal              x = a.value                              *)
(*   throw                        cocotb::assert(false)                    *)
(*   goto   a=pc                  loop                                     *)
(*   mark   a=tag                 log line: the body has reached this point *)
(*          a=begin/end b=body    get_sim_time() before / after awaiting b  *)

I(op, a, b) == [op |-> op, a |-> a, b |-> b]

\* Clock(dut, period, unit): timer is Timer(period / 2, unit), the division
\* being that of unsigned integers
ClockProg(period, unit) ==
    << I("write", "clk", 0), I("timer", period \div 2, unit),
       I("write", "clk", 1), I("timer", period \div 2, unit),
       I("goto", 1, 0) >>

Prog(p) ==
    CASE p = "Clock"             -> ClockProg(clock.period, clock.unit)
      [] p = "c_write"           -> << I("write", "h", 1) >>
      [] p = "c_timer_write"     -> << I("timer", 1, "step"), I("write", "h", 1) >>
      [] p = "c_edge_write"      -> << I("edge", "clk", 0), I("write", "h", 1) >>
      [] p = "c_throw"           -> << I("throw", 0, 0) >>
      [] p = "c_long"            -> << I("timer", 2, "step"), I("write", "h", 1) >>
      [] p = "c_wait_join"       -> << I("await", "c_long", 0) >>
      [] p = "test_pass"         -> << I("timer", 1, "step") >>
      [] p = "test_failure"      -> << I("throw", 0, 0), I("timer", 1, "step") >>
      [] p = "test_ctor_throw"   -> << >>
      [] p = "test_write_timer0" -> << I("write", "h", 1), I("timer", 0, "step"),
                                       I("read", "h", 0) >>
      [] p = "test_write_timer"  -> << I("write", "h", 1), I("timer", 1, "step"),
                                       I("read", "h", 0) >>
      [] p = "test_write_subtick" -> << I("write", "h", 1), I("timer", 1, "ps"),
                                        I("read", "h", 0) >>
      [] p = "test_join_spawn"   -> << I("spawn", "c_write", 1), I("join", 0, 1),
                                       I("read", "h", 0) >>
      [] p = "test_join_edge"    -> << I("spawn", "c_edge_write", 1),
                                       I("write", "clk", 1), I("join", 0, 1),
                                       I("read", "h", 0) >>
      [] p = "test_late_join"    -> << I("spawn", "c_write", 1), I("timer", 1, "step"),
                                       I("join", 0, 1) >>
      [] p = "test_drop"         -> << I("spawn", "Clock", 1), I("timer", 1, "step"),
                                       I("drop", 0, 1), I("timer", 2, "step") >>
      [] p = "test_double_join"  -> << I("spawn", "c_timer_write", 1), I("join", 0, 1),
                                       I("join", 0, 1) >>
      [] p = "test_clock"        -> << I("spawn", "Clock", 1), I("edge", "clk", 0),
                                       I("write", "h", 1), I("timer", 2, "step"),
                                       I("read", "h", 0) >>
      [] p = "test_orphans"      -> << I("spawn", "c_wait_join", 1),
                                       I("timer", 1, "step") >>
      [] p = "test_await_throw"  -> << I("await", "c_throw", 0) >>
      [] p = "c_readonly"        -> << I("timer", 1, "step"), I("ro", 0, 0) >>
      [] p = "test_readonly"     -> << I("spawn", "c_readonly", 1),
                                       I("timer", 1, "step"), I("write", "h", 1),
                                       I("timer", 1, "step"), I("read", "h", 0) >>
      [] p = "test_ro_end"       -> << I("spawn", "c_readonly", 1),
                                       I("timer", 1, "step") >>
      [] p = "c_timer_read"      -> << I("timer", 1, "step"), I("read", "h", 0) >>
      [] p = "test_batch"        -> << I("spawn", "c_timer_write", 1),
                                       I("spawn", "c_timer_read", 2),
                                       I("join", 0, 1) >>
      [] p = "test_edge_sample"  -> << I("spawn", "Clock", 1), I("write", "h", 1),
                                       I("edge", "clk", 0), I("read", "h", 0) >>
      [] p = "test_edge_same"    -> << I("spawn", "Clock", 1),
                                       I("timer", 1, "step"), I("write", "h", 1),
                                       I("edge", "clk", 0), I("read", "h", 0) >>
      [] p = "c_write_g"         -> << I("write", "g", 1) >>
      [] p = "test_siblings"     -> << I("spawn", "c_write", 1),
                                       I("spawn", "c_write_g", 2),
                                       I("join", 0, 1), I("join", 0, 2),
                                       I("read", "h", 0), I("read", "g", 0) >>
      [] p = "c_toggle"          -> << I("write", "h", 1), I("timer", 1, "step"),
                                       I("write", "h", 0) >>
      [] p = "c_pulse"           -> << I("write", "g", 1), I("write", "g", 0) >>
      [] p = "test_direct_toggle" -> << I("timer", 1, "step"),
                                        I("mark", "begin", "c_toggle"),
                                        I("await", "c_toggle", 0),
                                        I("mark", "end", "c_toggle") >>
      [] p = "test_spawn_toggle" -> << I("timer", 1, "step"),
                                       I("mark", "begin", "c_toggle"),
                                       I("spawn", "c_toggle", 1), I("join", 0, 1),
                                       I("mark", "end", "c_toggle") >>
      [] p = "test_direct_pulse" -> << I("timer", 1, "step"),
                                       I("mark", "begin", "c_pulse"),
                                       I("await", "c_pulse", 0),
                                       I("mark", "end", "c_pulse") >>
      [] p = "test_spawn_pulse"  -> << I("timer", 1, "step"),
                                       I("mark", "begin", "c_pulse"),
                                       I("spawn", "c_pulse", 1), I("join", 0, 1),
                                       I("mark", "end", "c_pulse") >>
      [] p = "c_write_throw"     -> << I("write", "h", 1), I("throw", 0, 0) >>
      [] p = "c_await_throw"     -> << I("await", "c_throw", 0) >>
      [] p = "test_join_throw"   -> << I("spawn", "c_write_throw", 1),
                                       I("join", 0, 1), I("read", "h", 0) >>
      [] p = "test_chain_throw"  -> << I("await", "c_await_throw", 0),
                                       I("read", "h", 0) >>
      [] p = "test_spawn_end"    -> << I("spawn", "Clock", 1),
                                       I("timer", 1, "step") >>
      [] p = "c_edge_mark"       -> << I("edge", "clk", 0), I("mark", "B", 0) >>
      [] p = "test_edge_order"   -> << I("spawn", "Clock", 1),
                                       I("spawn", "c_edge_mark", 2),
                                       I("edge", "clk", 0), I("mark", "A", 0) >>

TestFns == {"test_pass", "test_failure", "test_ctor_throw", "test_write_timer0",
            "test_write_timer", "test_join_spawn", "test_join_edge",
            "test_late_join", "test_drop", "test_double_join", "test_clock",
            "test_orphans", "test_await_throw", "test_readonly",
            "test_write_subtick", "test_edge_order", "test_batch", "test_edge_sample",
            "test_edge_same", "test_ro_end", "test_siblings",
            "test_direct_toggle", "test_spawn_toggle", "test_direct_pulse",
            "test_spawn_pulse"}

\* A test function that throws before it returns its coroutine.
CtorThrows(fn) == fn = "test_ctor_throw"


-----------------------------------------------------------------------------
(* Timer unit conversion (Timer::await_suspend).  A uint64_t is a sequence *)
(* of bits, least significant first, without leading zeros; a double is    *)
(* [m, e], the value of the bits m times 2^e, with m of at most            *)
(* MantissaBits bits.                                                      *)

SimPrecision == -9

\* the significand of a double, in bits
MantissaBits == 53

\* the width of uint64_t
Uint64Bits == 64

UnitExp(u) ==
    CASE u = "fs" -> -15 [] u = "ps" -> -12 [] u = "ns" -> -9 [] u = "us" -> -6
      [] u = "ms" -> -3 [] u = "sec" -> 1 [] u = "step" -> 0

Zeros(k) == [i \in 1..k |-> 0]

\* the position of the leading one of b, 0 if there is none
Top(b) ==
    CHOOSE i \in 0..Len(b) :
        /\ i = 0 \/ b[i] = 1
        /\ \A j \in (i + 1)..Len(b) : b[j] = 0

Norm(b) == SubSeq(b, 1, Top(b))

RECURSIVE FromNat(_)
FromNat(n) == IF n = 0 THEN <<>> ELSE <<n % 2>> \o FromNat(n \div 2)

RECURSIVE ToNat(_)
ToNat(b) == IF b = <<>> THEN 0 ELSE b[1] + 2 * ToNat(Tail(b))

Bit(b, i) == IF i <= Len(b) THEN b[i] ELSE 0

ShiftL(b, k) == IF b = <<>> \/ k = 0 THEN b ELSE Zeros(k) \o b

ShiftR(b, k) == IF Len(b) <= k THEN <<>> ELSE SubSeq(b, k + 1, Len(b))

\* the carry into column i of a + b: some lower column generates one and
\* every column between passes it on
Carry(a, b, i) ==
    \E j \in 1..(i - 1) :
        /\ Bit(a, j) + Bit(b, j) = 2
        /\ \A k \in (j + 1)..(i - 1) : Bit(a, k) + Bit(b, k) = 1

Add(a, b) ==
    IF a = <<>> THEN b
    ELSE IF b = <<>> THEN a
    ELSE LET n == (IF Len(a) > Len(b) THEN Len(a) ELSE Len(b)) + 1
         IN  Norm([i \in 1..n |->
                     (Bit(a, i) + Bit(b, i)
                        + (IF Carry(a, b, i) THEN 1 ELSE 0)) % 2])

\* the borrow into column i of a - b
Borrow(a, b, i) ==
    \E j \in 1..(i - 1) :
        /\ Bit(a, j) < Bit(b, j)
        /\ \A k \in (j + 1)..(i - 1) : Bit(a, k) = Bit(b, k)

\* a - b for a >= b
Sub(a, b) ==
    IF b = <<>> THEN a
    ELSE Norm([i \in 1..Len(a) |->
                 (2 + Bit(a, i) - Bit(b, i)
                    - (IF Borrow(a, b, i) THEN 1 ELSE 0)) % 2])

\* a >= b
Geq(a, b) ==
    IF Len(a) # Len(b) THEN Len(a) > Len(b)
    ELSE \/ a = b
         \/ \E i \in 1..Len(a) :
               /\ a[i] > b[i]
               /\ \A j \in (i + 1)..Len(a) : a[j] = b[j]

\* a times the bits lo..hi of b, in place
RECURSIVE MulRange(_, _, _, _)
MulRange(a, b, lo, hi) ==
    IF lo > hi THEN <<>>
    ELSE IF lo = hi THEN (IF b[lo] = 1 THEN ShiftL(a, lo - 1) ELSE <<>>)
    ELSE LET mid == (lo + hi) \div 2
         IN  Add(MulRange(a, b, lo, mid), MulRange(a, b, mid + 1, hi))

Mul(a, b) == IF a = <<>> \/ b = <<>> THEN <<>> ELSE MulRange(a, b, 1, Len(b))

\* one step of the long division of n by d: bit i of n is brought down
DivStep(n, d, st) ==
    IF st.i = 0 THEN st
    ELSE LET r2 == Norm(<<n[st.i]>> \o st.r)
         IN  IF Geq(r2, d)
             THEN [i |-> st.i - 1, q |-> <<1>> \o st.q, r |-> Sub(r2, d)]
             ELSE [i |-> st.i - 1, q |-> <<0>> \o st.q, r |-> r2]

DivStep4(n, d, st) ==
    DivStep(n, d, DivStep(n, d, DivStep(n, d, DivStep(n, d, st))))

RECURSIVE DivSteps(_, _, _)
DivSteps(n, d, st) ==
    IF st.i = 0 THEN st
    ELSE DivSteps(n, d, DivStep4(n, d, DivStep4(n, d, st)))

\* quotient and remainder of n by d # 0; the leading Len(d) - 1 bits of n
\* are below d
DivMod(n, d) ==
    IF Len(n) < Len(d) THEN [q |-> <<>>, r |-> n]
    ELSE LET st == DivSteps(n, d,
                       [i |-> Len(n) - Len(d) + 1, q |-> <<>>,
                        r |-> Norm(ShiftR(n, Len(n) - Len(d) + 1))])
         IN  [q |-> Norm(st.q), r |-> st.r]

\* 10^n as an int, for the delays of the coroutine bodies above
RECURSIVE Pow10(_)
Pow10(n) == IF n = 0 THEN 1 ELSE 10 * Pow10(n - 1)

\* 10^n as bits
RECURSIVE Pow10Bits(_)
Pow10Bits(n) ==
    IF n <= 9 THEN FromNat(Pow10(n))
    ELSE Mul(Pow10Bits(n - 9), FromNat(Pow10(9)))

\* round the integer b, followed by a fraction that is nonzero iff sticky,
\* to MantissaBits bits, to nearest and ties to even: the value is close
\* to m * 2^sh
Round53(b, sticky) ==
    IF Len(b) <= MantissaBits THEN [m |-> b, sh |-> 0]
    ELSE LET drop == Len(b) - MantissaBits
             kept == ShiftR(b, drop)
             rest == sticky \/ \E i \in 1..(drop - 1) : b[i] = 1
             up   == b[drop] = 1 /\ (rest \/ kept[1] = 1)
         IN  [m |-> IF up THEN Add(kept, <<1>>) ELSE kept, sh |-> drop]

\* static_cast<double>(uint64_t)
ToDouble(b) == LET r == Round53(b, FALSE) IN [m |-> r.m, e |-> r.sh]

\* x * y in double arithmetic
FMul(x, y) ==
    LET r == Round53(Mul(x.m, y.m), FALSE)
    IN  [m |-> r.m, e |-> x.e + y.e + r.sh]

\* x / y in double arithmetic, x and y nonzero
FDiv(x, y) ==
    LET k  == IF MantissaBits + 2 + Len(y.m) > Len(x.m)
              THEN MantissaBits + 2 + Len(y.m) - Len(x.m) ELSE 0
        qr == DivMod(ShiftL(x.m, k), y.m)
        r  == Round53(qr.q, qr.r # <<>>)
    IN  [m |-> r.m, e |-> x.e - y.e + r.sh - k]

\* std::pow(10.0, n), correctly rounded
PowTen(n) ==
    IF n >= 0 THEN ToDouble(Pow10Bits(n))
    ELSE FDiv(ToDouble(<<1>>), ToDouble(Pow10Bits(-n)))

\* factor, lines 382-387
Factor(unit, precision) ==
    IF unit = "step" THEN ToDouble(<<1>>)
    ELSE FDiv(PowTen(-precision), PowTen(-UnitExp(unit)))

\* static_cast<double>(delay_) * factor
TimerProduct(delay, unit, precision) ==
    FMul(ToDouble(delay), Factor(unit, precision))

\* the double x is below 2^64
InRange(x) == Len(x.m) + x.e <= Uint64Bits

\* the integer part of the double x
Trunc(x) == IF x.e >= 0 THEN ShiftL(x.m, x.e) ELSE ShiftR(x.m, -x.e)

\* What static_cast<uint64_t> of a double that is out of range yields:
\* zero, 2^63 or the largest uint64_t.
UBCasts == {<<>>, ShiftL(<<1>>, Uint64Bits - 1),
            [i \in 1..Uint64Bits |-> 1]}

\* the values delay_final can take
DelayFinalOutcomes(delay, unit, precision) ==
    LET x == TimerProduct(delay, unit, precision)
    IN  IF InRange(x) THEN {Trunc(x)} ELSE UBCasts

\* delay_final = uint64(double(delay) * (10^-precision / 10^-unit)), for
\* the delays of the coroutine bodies above, which are exact in a double
DelayFinal(delay, unit) ==
    IF unit = "step" THEN delay
    ELSE LET e == (-SimPrecision) - (-UnitExp(unit))
         IN  IF e >= 0 THEN delay * Pow10(e) ELSE delay \div Pow10(-e)

-----------------------------------------------------------------------------
(* The state a handler works on: the variables, plus what is local to one  *)
(* callback invocation (ctx: the trampoline executing, u: the outcome of   *)
(* dangling accesses, flush: run_ready's flush_writes argument, kont: the  *)
(* on_test_complete invocations waiting for their cleanup drain, susp: the *)
(* running coroutine has suspended; sig0, pend0: the signal values and the *)
(* number of queued writes when the innermost run_ready call started       *)
(* resuming, mid: that call has flushed for a completed joined coroutine,  *)
(* roreq: a read-write request was made while in_readonly was set, ubhit:  *)
(* a dangling access was made).                                            *)

EmptyJH == [h |-> 0, joined |-> FALSE]

NewFrame(p, t) ==
    [prog |-> p, pc |-> 1, alive |-> TRUE, destroyed |-> 0, done |-> FALSE,
     detached |-> FALSE, completed |-> FALSE, cancelled |-> FALSE,
     join_waiter |-> 0, exception_ |-> FALSE, awaiting |-> 0,
     jh |-> [k \in 1..NSlots |-> EmptyJH], test |-> t, resumes |-> 0,
     dropped |-> FALSE, dtest |-> 0, wpending |-> FALSE, twake |-> FALSE,
     tpend |-> FALSE, tinfo |-> <<>>, what |-> "",
     refused |-> ""]

EmptyTrace ==
    [setctx |-> {}, ub |-> {}, obs |-> {}, late |-> {}, dropres |-> {},
     overwritten |-> {}, handled |-> 0, verdicts |-> <<>>, marks |-> <<>>,
     t0 |-> 0, batch |-> {}, edge_stale |-> {}, timer_res |-> {},
     rolog |-> {}, ntlog |-> {}, nt_time |-> <<>>, assign |-> {},
     seg |-> <<>>, segs |-> {}, timer_at |-> {}, joins |-> {},
     refusals |-> {}, ctor |-> {}, bounces |-> {}, wfifo |-> <<>>,
     wbad |-> FALSE, jsusp |-> {}]

\* no Python test is being run
NoBridge == [script |-> <<>>, pos |-> 1, pc |-> "none"]

\* the clock of the tests: its half period is one tick
DffClock == [period |-> 2, unit |-> "step", advances |-> 0, drain |-> FALSE]

St(c, uu) ==
    [frames |-> frames, ready |-> ready, pending_writes |-> pending_writes,
     rw_cb_pending |-> rw_cb_pending, in_readonly |-> in_readonly,
     need_rw_after_ro |-> need_rw_after_ro,
     active_coroutines |-> active_coroutines, results |-> results,
     current_test_index |-> current_test_index,
     current_test_handle |-> current_test_handle, sig |-> sig,
     timers |-> timers, edges |-> edges, rw_regs |-> rw_regs,
     ro_regs |-> ro_regs, nt_regs |-> nt_regs, nt_due |-> nt_due,
     finish_calls |-> finish_calls, report_calls |-> report_calls,
     exit_code |-> exit_code, aborted |-> aborted, now |-> now,
     gpi_fail_at |-> gpi_fail_at, trace |-> trace,
     ctx |-> c, u |-> uu, flush |-> FALSE, kont |-> <<>>, susp |-> FALSE,
     sig0 |-> sig, pend0 |-> Len(pending_writes), mid |-> FALSE,
     roreq |-> FALSE, ubhit |-> FALSE]

Commit(r) ==
    /\ frames' = r.frames
    /\ ready' = r.ready
    /\ pending_writes' = r.pending_writes
    /\ rw_cb_pending' = r.rw_cb_pending
    /\ in_readonly' = r.in_readonly
    /\ need_rw_after_ro' = r.need_rw_after_ro
    /\ active_coroutines' = r.active_coroutines
    /\ results' = r.results
    /\ current_test_index' = r.current_test_index
    /\ current_test_handle' = r.current_test_handle
    /\ sig' = r.sig
    /\ timers' = r.timers
    /\ edges' = r.edges
    /\ rw_regs' = r.rw_regs
    /\ ro_regs' = r.ro_regs
    /\ nt_regs' = r.nt_regs
    /\ nt_due' = r.nt_due
    /\ finish_calls' = r.finish_calls
    /\ report_calls' = r.report_calls
    /\ exit_code' = r.exit_code
    /\ aborted' = r.aborted
    /\ trace' = r.trace
    /\ tests' = tests
    /\ now' = now
    /\ conv' = conv
    /\ gpi_fail_at' = r.gpi_fail_at
    /\ dut' = dut

\* The process is gone: std::exit(1) was called, or it aborted.
Stopped(s) == s.exit_code # 0 \/ s.aborted

-----------------------------------------------------------------------------
(* Frames and dangling accesses.                                           *)

Alive(s, h) == h \in 1..Len(s.frames) /\ s.frames[h].alive

\* An access to a destroyed frame (use after free, double destroy).
UBEvent(s, kind, h) ==
    [s EXCEPT !.trace.ub = @ \cup {<<kind, h>>},
              !.ubhit = TRUE,
              !.aborted = @ \/ (s.u = "abort")]

\* coroutine_handle::done()
Done(s, h) == IF Alive(s, h) THEN s.frames[h].done ELSE s.u = "true"

\* a read of a bool member of handle.promise()
PromiseFlag(s, h, field) ==
    IF Alive(s, h) THEN s.frames[h][field] ELSE s.u = "true"

\* the state after a read of handle.promise() / handle.done()
Touch(s, h, kind) == IF Alive(s, h) THEN s ELSE UBEvent(s, kind, h)

\* a write of a member of handle.promise()
SetPromise(s, h, field, v) ==
    [Touch(s, h, "promise_write_after_destroy") EXCEPT !.frames[h][field] = v]

\* Faulty variant: cleanup() that forgets to signal cancellation
JHCleanupNoCancel(s, h, k) ==
    LET j == s.frames[h].jh[k]
    IN  IF j.h = 0 THEN s
        ELSE LET s1 == IF j.joined THEN s
                       ELSE [s EXCEPT !.frames[j.h].dropped = TRUE]
             IN  [s1 EXCEPT !.frames[h].jh[k] = EmptyJH]

\* JoinHandle::cleanup()
JHCleanup(s, h, k) ==
    LET j == s.frames[h].jh[k]
    IN  IF j.h = 0 THEN s
        ELSE LET s1 == IF j.joined THEN s
                       ELSE [SetPromise(Touch(s, j.h, "drop_after_destroy"),
                                        j.h, "cancelled", TRUE)
                                EXCEPT !.frames[j.h].dropped = TRUE]
             IN  [s1 EXCEPT !.frames[h].jh[k] = EmptyJH]

\* the destructors of a body's JoinHandle locals, in reverse order
RECURSIVE DestroyLocals(_, _, _)
DestroyLocals(s, h, k) ==
    IF k = 0 THEN s ELSE DestroyLocals(JHCleanup(s, h, k), h, k - 1)

\* coroutine_handle::destroy(): a frame suspended in its body still holds
\* its locals; a frame at its final suspend point has destroyed them.
Destroy(s, h) ==
    IF ~Alive(s, h)
    THEN [UBEvent(s, "double_destroy", h) EXCEPT
             !.frames[h].destroyed = IF @ < 2 THEN @ + 1 ELSE @]
    ELSE LET s1 == IF s.frames[h].done THEN s ELSE DestroyLocals(s, h, NSlots)
         IN  [s1 EXCEPT !.frames[h].alive = FALSE,
                        !.frames[h].destroyed = @ + 1,
                        !.frames[h].dtest = s.current_test_index]

-----------------------------------------------------------------------------
(* The simulator side of the GPI calls the scheduler makes.                *)

\* What the scheduler and the simulator hold when a body is about to await
\* a child, without the identities of the frames.
Snapshot(s) ==
    LET Ident(h) == IF h \in 1..Len(s.frames)
                    THEN <<s.frames[h].prog, s.frames[h].pc,
                           s.frames[h].alive, s.frames[h].cancelled>>
                    ELSE <<>>
    IN  [ctx |-> s.ctx, flush |-> s.flush, sig |-> s.sig,
         pending_writes |-> s.pending_writes,
         rw_cb_pending |-> s.rw_cb_pending, rw_regs |-> s.rw_regs,
         ro_regs |-> s.ro_regs, nt_regs |-> s.nt_regs, nt_due |-> s.nt_due,
         in_readonly |-> s.in_readonly,
         need_rw_after_ro |-> s.need_rw_after_ro,
         ready |-> [i \in 1..Len(s.ready) |-> Ident(s.ready[i])],
         timers |-> [i \in 1..Len(s.timers) |->
                       <<s.timers[i].delay, Ident(s.timers[i].coro)>>],
         edges |-> [i \in 1..Len(s.edges) |->
                      <<s.edges[i].signal, s.edges[i].due,
                        Ident(s.edges[i].coro)>>],
         kont |-> Len(s.kont)]

\* gpi_set_signal_value_int: the value is deposited, and a 0 -> 1 change
\* makes the value-change callbacks registered on the signal due.
GpiSetSignalValue(s, sg, v) ==
    LET rising == s.sig[sg] = 0 /\ v = 1
    IN  [s EXCEPT !.sig[sg] = v,
                  !.edges = [i \in 1..Len(@) |->
                               IF rising /\ @[i].signal = sg
                               THEN [@[i] EXCEPT !.due = TRUE] ELSE @[i]],
                  !.trace.setctx = @ \cup {s.ctx},
                  !.trace.wbad = @ \/ s.trace.wfifo = <<>>
                                   \/ Head(s.trace.wfifo) # <<sg, v>>,
                  !.trace.wfifo = IF @ = <<>> THEN @ ELSE Tail(@),
                  !.trace.seg = [k \in DOMAIN @ |->
                                   [@[k] EXCEPT !.log =
                                       Append(@, <<"write", s.now - s.trace.seg[k].t,
                                                   sg, v>>)]]]

-----------------------------------------------------------------------------
(* Scheduler.                                                              *)

RegisterActiveCoroutine(s, h) ==
    IF h # 0 THEN [s EXCEPT !.active_coroutines = @ \cup {h}] ELSE s

UnregisterActiveCoroutine(s, h) ==
    IF h # 0 THEN [s EXCEPT !.active_coroutines = @ \ {h}] ELSE s

ScheduleHandle(s, h) ==
    IF h # 0
    THEN [RegisterActiveCoroutine(s, h) EXCEPT !.ready = Append(@, h)]
    ELSE s

\* Faulty variant: a request that registers even in a read-only phase
RequestReadwriteCallbackEager(s) ==
    IF s.rw_cb_pending THEN s
    ELSE [s EXCEPT !.rw_cb_pending = TRUE, !.rw_regs = @ + 1]

RequestReadwriteCallback(s) ==
    IF s.in_readonly THEN [s EXCEPT !.need_rw_after_ro = TRUE, !.roreq = TRUE]
    ELSE IF s.rw_cb_pending THEN s
    ELSE [s EXCEPT !.rw_cb_pending = TRUE, !.rw_regs = @ + 1]

EnqueueReady(s, h) ==
    IF h = 0 THEN s
    ELSE RequestReadwriteCallback([s EXCEPT !.ready = Append(@, h)])

\* Faulty variant: a timer wake-up that does not request a read-write callback
ScheduleReadwriteNoRequest(s, h) ==
    IF h = 0 THEN s ELSE [s EXCEPT !.ready = Append(@, h)]

ScheduleReadwrite(s, h) ==
    IF h = 0 THEN s
    ELSE RequestReadwriteCallback([s EXCEPT !.ready = Append(@, h)])

ScheduleReadonly(s, h) ==
    IF h = 0 THEN s
    ELSE [s EXCEPT !.ready = Append(@, h), !.ro_regs = @ + 1]

\* Faulty variant: an assignment that queues without requesting a callback
QueueWriteNoRequest(s, sg, v) ==
    [s EXCEPT !.pending_writes = Append(@, <<sg, v>>)]

\* Faulty variant: an assignment that deposits the value at once
QueueWriteNow(s, sg, v) == GpiSetSignalValue(s, sg, v)

QueueWrite(s, sg, v) ==
    RequestReadwriteCallback(
        [s EXCEPT !.pending_writes = Append(@, <<sg, v>>)])

\* Faulty variant: a flush that empties the queue without depositing the values
FlushPendingWritesDiscard(s) ==
    [s EXCEPT !.pending_writes = <<>>, !.rw_cb_pending = FALSE]

\* Faulty variant: a flush that takes the requests from the back of the queue
RECURSIVE FlushPendingWritesLifo(_)
FlushPendingWritesLifo(s) ==
    IF s.pending_writes = <<>>
    THEN [s EXCEPT !.rw_cb_pending = FALSE,
                   !.frames = [i \in 1..Len(@) |->
                                  [@[i] EXCEPT !.wpending = FALSE,
                                               !.tpend = FALSE]]]
    ELSE LET n  == Len(s.pending_writes)
             wr == s.pending_writes[n]
         IN  FlushPendingWritesLifo(
                 GpiSetSignalValue(
                     [s EXCEPT !.pending_writes = SubSeq(@, 1, n - 1)],
                     wr[1], wr[2]))

RECURSIVE FlushPendingWrites(_)
FlushPendingWrites(s) ==
    IF s.pending_writes = <<>>
    THEN [s EXCEPT !.rw_cb_pending = FALSE,
                   !.frames = [i \in 1..Len(@) |->
                                  [@[i] EXCEPT !.wpending = FALSE,
                                               !.tpend = FALSE]]]
    ELSE LET wr == Head(s.pending_writes)
         IN  FlushPendingWrites(
                 GpiSetSignalValue([s EXCEPT !.pending_writes = Tail(@)],
                                   wr[1], wr[2]))

\* run_ready, lines 579-582: the loop starts after the optional flush
BeginDrain(s) ==
    [s EXCEPT !.sig0 = s.sig, !.pend0 = Len(s.pending_writes), !.mid = FALSE]

\* Faulty variant: a timed callback registered one tick too far
ScheduleAfterTimeLate(s, h, delay) ==
    [s EXCEPT !.timers = Append(@, [coro |-> h, delay |-> delay + 1]),
              !.frames[h].tinfo = <<delay, s.now>>]

\* gpi_register_timed_callback / gpi_register_value_change_callback return
\* a null id
GpiRefuses(s) == s.gpi_fail_at = 1

\* the simulator after it has answered a registration
GpiAnswered(s) == [s EXCEPT !.gpi_fail_at = IF @ > 0 THEN @ - 1 ELSE @]

\* Faulty variant: a refused registration whose continuation is dropped
RegistrationRefusedDrop(s, h, kind) ==
    [s EXCEPT !.frames[h].refused = "wait",
              !.trace.refusals = @ \cup
                  {[kind |-> kind, freed |-> 1, queued |-> 0,
                    registered |-> FALSE, rw |-> FALSE]}]

\* schedule_after_time / schedule_on_edge, the branch taken when the
\* simulator returned a null id: the record is deleted and the
\* continuation h goes to the ready queue
RegistrationRefused(s, h, kind) ==
    LET s1 == EnqueueReady(s, h)
    IN  [s1 EXCEPT !.frames[h].refused = "wait",
                   !.trace.refusals = @ \cup
                       {[kind |-> kind,
                         freed |-> 1,
                         queued |-> Cardinality({i \in 1..Len(s1.ready) :
                                                    s1.ready[i] = h}),
                         registered |->
                             \/ \E i \in 1..Len(s1.timers) :
                                    s1.timers[i].coro = h
                             \/ \E i \in 1..Len(s1.edges) :
                                    s1.edges[i].coro = h,
                         rw |-> \/ s1.rw_cb_pending /\ s1.rw_regs >= 1
                                \/ s1.need_rw_after_ro]}]

\* tinfo: the delay asked for and the time at which it was asked
ScheduleAfterTime(s, h, delay) ==
    LET s1 == [GpiAnswered(s) EXCEPT !.frames[h].tinfo = <<delay, s.now>>]
    IN  IF GpiRefuses(s) THEN RegistrationRefused(s1, h, "timer")
        ELSE [s1 EXCEPT !.timers = Append(@, [coro |-> h, delay |-> delay])]

\* Faulty variant: a value-change callback that is due as soon as registered
ScheduleOnEdgeDue(s, h, sg) ==
    [s EXCEPT !.edges = Append(@, [coro |-> h, signal |-> sg, due |-> TRUE])]

ScheduleOnEdge(s, h, sg) ==
    LET s1 == GpiAnswered(s)
    IN  IF GpiRefuses(s) THEN RegistrationRefused(s1, h, "edge")
        ELSE [s1 EXCEPT !.edges =
                 Append(@, [coro |-> h, signal |-> sg, due |-> FALSE])]

-----------------------------------------------------------------------------
(* Joins (task::join_awaiter).                                             *)

\* the coroutine body ends: by falling off its end, or by an exception that
\* promise_type::unhandled_exception captures; its locals are destroyed and
\* it stops at its final suspend point
FinishBody(s, h, exc) ==
    LET s1 == DestroyLocals(s, h, NSlots)
        s2 == [s1 EXCEPT !.frames[h].done = TRUE,
                         !.frames[h].exception_ = exc,
                         !.frames[h].awaiting = 0]
    IN  IF h = s.current_test_handle
        THEN [s2 EXCEPT !.trace.verdicts =
                 Append(@, [test |-> s.current_test_index, exc |-> exc])]
        ELSE s2

\* join_awaiter::await_ready
AwaitReady(s, target) ==
    IF target = 0 THEN TRUE
    ELSE IF Done(s, target) THEN PromiseFlag(s, target, "completed")
    ELSE FALSE

\* join_awaiter::await_suspend(cont)
AwaitSuspend(s, cont, target) ==
    IF target = 0 THEN EnqueueReady(s, cont)
    ELSE LET s1 == Touch(s, target, "join_after_destroy")
         IN  IF Done(s1, target) THEN EnqueueReady(s1, cont)
             ELSE IF PromiseFlag(s1, target, "completed")
             THEN EnqueueReady(s1, cont)
             ELSE LET s2 == IF s1.frames[target].join_waiter # 0
                            THEN [s1 EXCEPT !.trace.overwritten = @ \cup {target}]
                            ELSE s1
                      s3 == SetPromise(s2, target, "join_waiter", cont)
                  IN  IF ~PromiseFlag(s3, target, "detached")
                      THEN ScheduleHandle(s3, target)
                      ELSE s3

\* e.what() of the exception that handle.promise().exception_ points to
What(s, h) == IF Alive(s, h) THEN s.frames[h].what ELSE "?"

\* Faulty variant: await_resume that destroys the target without looking
\* at its exception
AwaitResumeNoRethrow(s, h, target) ==
    LET s0 == [s EXCEPT !.frames[h].awaiting = 0]
    IN  IF target = 0 THEN s0
        ELSE Destroy(Touch(s0, target, "join_after_destroy"), target)

\* join_awaiter::await_resume, run in the body of coroutine h; a rethrown
\* exception ends the body of h, which has no handler
AwaitResume(s, h, target) ==
    LET s0 == [s EXCEPT !.frames[h].awaiting = 0]
    IN  IF target = 0 THEN s0
        ELSE LET s1 == Touch(s0, target, "join_after_destroy")
             IN  IF PromiseFlag(s1, target, "exception_")
                 THEN [FinishBody(s1, h, TRUE) EXCEPT
                          !.frames[h].what = What(s1, target)]
                 ELSE Destroy(s1, target)

\* what an await_resume did: s is the state before it, r the state after
JoinResumed(s, r, h, target) ==
    IF target = 0 THEN r
    ELSE [r EXCEPT !.trace.joins = @ \cup
             {[target |-> target, waiter |-> h,
               suspended |-> s.frames[h].awaiting # 0,
               bounced |-> s.frames[h].twake,
               ctx |-> s.ctx, flush |-> s.flush,
               alive |-> Alive(s, target),
               exc |-> s.frames[target].exception_,
               rethrown |-> r.frames[h].done /\ r.frames[h].exception_
                            /\ r.frames[h].what = s.frames[target].what,
               destroyed |-> r.frames[target].destroyed]}]

\* how often handle h occurs in the queue q
Occurrences(q, h) == Cardinality({i \in 1..Len(q) : q[i] = h})

\* what an await_suspend did: s is the state before it, r the state after;
\* spawned: the target had been passed to start_soon
JoinSuspended(s, r, target) ==
    IF target = 0 THEN r
    ELSE [r EXCEPT !.trace.jsusp = @ \cup
             {[spawned |-> s.frames[target].detached,
               alive |-> Alive(s, target),
               added |-> Occurrences(r.ready, target)
                         - Occurrences(s.ready, target),
               active |-> target \in r.active_coroutines]}]

\* co_await on a join_awaiter for target, at an instruction of h
CoAwaitJoin(s, h, target) ==
    IF AwaitReady(s, target)
    THEN JoinResumed(s, AwaitResume(Touch(s, target, "join_after_destroy"),
                                    h, target), h, target)
    ELSE [JoinSuspended(s, AwaitSuspend(Touch(s, target, "join_after_destroy"),
                                        h, target), target)
             EXCEPT !.frames[h].awaiting = target, !.susp = TRUE]

\* Faulty variant: start_soon that does not mark the child detached
StartSoonNoDetach(s, h, p, k) ==
    LET c  == Len(s.frames) + 1
        s1 == [s EXCEPT !.frames =
                  Append(@, NewFrame(p, s.current_test_index))]
        s2 == JHCleanup(ScheduleHandle(s1, c), h, k)
    IN  [s2 EXCEPT !.frames[h].jh[k] = [h |-> c, joined |-> FALSE]]

\* start_soon(p(dut)), the JoinHandle move-assigned to local k of h
StartSoon(s, h, p, k) ==
    LET c  == Len(s.frames) + 1
        s1 == [s EXCEPT !.frames =
                  Append(@, [NewFrame(p, s.current_test_index)
                                EXCEPT !.detached = TRUE])]
        s2 == JHCleanup(ScheduleHandle(s1, c), h, k)
    IN  [s2 EXCEPT !.frames[h].jh[k] = [h |-> c, joined |-> FALSE]]

-----------------------------------------------------------------------------
(* One instruction of the body of coroutine h.                             *)

Step(s, h) ==
    LET f   == s.frames[h]
        code == Prog(f.prog)
    IN  IF f.pc > Len(code) THEN FinishBody(s, h, FALSE)
        ELSE
        LET ins == code[f.pc]
            nx  == [s EXCEPT !.frames[h].pc = @ + 1]
        IN  CASE ins.op = "write" ->
                    LET q  == QueueWrite(nx, ins.a, ins.b)
                        ok == /\ q.sig = s.sig
                              /\ q.ready = s.ready
                              /\ q.timers = s.timers /\ q.edges = s.edges
                              /\ q.pending_writes =
                                     Append(s.pending_writes, <<ins.a, ins.b>>)
                              /\ ~q.susp
                              /\ IF s.in_readonly
                                 THEN q.need_rw_after_ro /\ q.rw_regs = s.rw_regs
                                 ELSE q.rw_cb_pending /\ q.rw_regs >= 1
                    IN  [q EXCEPT !.frames[h].wpending = TRUE,
                                  !.trace.assign = @ \cup {<<s.ctx, ok>>},
                                  !.trace.wfifo = Append(@, <<ins.a, ins.b>>)]
              [] ins.op = "timer" ->
                    IF ins.a = 0 THEN nx
                    ELSE [ScheduleAfterTime(nx, h, DelayFinal(ins.a, ins.b))
                             EXCEPT !.susp = TRUE]
              [] ins.op = "edge" ->
                    [ScheduleOnEdge(nx, h, ins.a) EXCEPT !.susp = TRUE]
              [] ins.op = "ro" ->
                    [ScheduleReadonly(nx, h) EXCEPT !.susp = TRUE]
              [] ins.op = "spawn" -> StartSoon(nx, h, ins.a, ins.b)
              [] ins.op = "join" ->
                    CoAwaitJoin([nx EXCEPT !.frames[h].jh[ins.b].joined = TRUE],
                                h, f.jh[ins.b].h)
              [] ins.op = "drop" -> JHCleanup(nx, h, ins.b)
              [] ins.op = "await" ->
                    CoAwaitJoin(
                        [nx EXCEPT !.frames =
                            Append(@, NewFrame(ins.a, s.current_test_index))],
                        h, Len(s.frames) + 1)
              [] ins.op = "read" ->
                    [nx EXCEPT !.trace.obs =
                        @ \cup {<<f.prog, f.pc, s.sig[ins.a]>>}]
              [] ins.op = "throw" ->
                    [FinishBody(s, h, TRUE) EXCEPT !.frames[h].what = f.prog]
              [] ins.op = "goto" -> [s EXCEPT !.frames[h].pc = ins.a]
              [] ins.op = "mark" ->
                    [nx EXCEPT !.trace.marks =
                        Append(@, [test |-> f.test, tag |-> ins.a,
                                   time |-> s.now - s.trace.t0,
                                   ctx |-> s.ctx]),
                               !.trace.seg =
                                   IF ins.a = "begin"
                                   THEN << [prog |-> f.prog, key |-> ins.b,
                                            snap |-> Snapshot(s), t |-> s.now,
                                            log |-> <<>>] >>
                                   ELSE IF ins.a = "end" THEN <<>> ELSE @,
                               !.trace.segs =
                                   IF ins.a = "end" /\ s.trace.seg # <<>>
                                   THEN @ \cup
                                        {[s.trace.seg[1] EXCEPT !.log =
                                            Append(@, <<"resume",
                                                        s.now - s.trace.seg[1].t,
                                                        s.ctx, s.flush>>)]}
                                   ELSE @]

RECURSIVE Exec(_, _)
Exec(s, h) ==
    IF s.aborted \/ s.susp \/ s.frames[h].done THEN [s EXCEPT !.susp = FALSE]
    ELSE Exec(Step(s, h), h)

\* handle.resume()
Resume(s, h) ==
    IF ~Alive(s, h) THEN UBEvent(s, "resume_after_destroy", h)
    ELSE IF s.frames[h].done THEN UBEvent(s, "resume_done", h)
    ELSE
    LET f  == s.frames[h]
        s1 == [s EXCEPT !.frames[h].resumes = IF @ < 2 THEN @ + 1 ELSE @,
                        !.trace.late =
                            IF f.test <= s.trace.handled THEN @ \cup {h} ELSE @,
                        !.trace.dropres =
                            IF f.dropped THEN @ \cup {h} ELSE @,
                        !.trace.batch = @ \cup
                            {<<s.sig = s.sig0, s.mid,
                               Len(s.pending_writes) > s.pend0>>},
                        !.trace.timer_res =
                            IF f.twake
                            THEN @ \cup {<<s.ctx, s.flush, f.tpend>>}
                            ELSE @,
                        !.trace.timer_at =
                            IF f.twake /\ f.tinfo # <<>>
                            THEN @ \cup {<<IF f.awaiting # 0 THEN "bounce"
                                                             ELSE "timer",
                                           f.tinfo[1], s.now - f.tinfo[2]>>}
                            ELSE @,
                        !.frames[h].tinfo = <<>>,
                        !.frames[h].refused =
                            IF @ = "wait" THEN "resumed"
                            ELSE IF @ = "resumed" THEN "" ELSE @,
                        !.frames[h].twake = FALSE]
    IN  IF f.awaiting # 0
        THEN Exec(JoinResumed(s, AwaitResume(s1, h, f.awaiting),
                              h, f.awaiting), h)
        ELSE Exec(s1, h)

-----------------------------------------------------------------------------
(* Test runner and teardown.                                               *)

Min(S) == CHOOSE x \in S : \A y \in S : x <= y

\* Faulty variant: a sweep that marks nothing cancelled
CancelMarkNone(s, todo) == s

\* Faulty variant: a sweep that destroys the coroutines it cancels at once
RECURSIVE CancelMarkDestroy(_, _)
CancelMarkDestroy(s, todo) ==
    IF todo = {} THEN s
    ELSE LET h  == Min(todo)
             s1 == Touch(s, h, "active_set_dangling")
             s2 == IF ~Done(s1, h)
                      /\ s.current_test_handle # 0
                      /\ h # s.current_test_handle
                   THEN Destroy(SetPromise(s1, h, "cancelled", TRUE), h)
                   ELSE s1
         IN  CancelMarkDestroy(s2, todo \ {h})

\* first loop of cancel_all_coroutines, over the handles not yet visited
RECURSIVE CancelMark(_, _)
CancelMark(s, todo) ==
    IF todo = {} THEN s
    ELSE LET h  == Min(todo)
             s1 == Touch(s, h, "active_set_dangling")
             s2 == IF ~Done(s1, h)
                      /\ s.current_test_handle # 0
                      /\ h # s.current_test_handle
                   THEN SetPromise(s1, h, "cancelled", TRUE)
                   ELSE s1
         IN  CancelMark(s2, todo \ {h})

\* second loop of cancel_all_coroutines
RECURSIVE CancelSweep(_, _)
CancelSweep(s, todo) ==
    IF todo = {} THEN s
    ELSE LET h  == Min(todo)
             s1 == Touch(s, h, "active_set_dangling")
             s2 == IF Done(s1, h)
                      /\ (s.current_test_handle = 0 \/ h # s.current_test_handle)
                   THEN [Destroy(s1, h) EXCEPT !.active_coroutines = @ \ {h}]
                   ELSE s1
         IN  CancelSweep(s2, todo \ {h})

CancelAllCoroutines(s) ==
    LET s1 == CancelMark(s, s.active_coroutines)
    IN  CancelSweep(s1, s1.active_coroutines)

\* Faulty variant: on_test_complete that never looks at the exception slot
OnTestCompleteBlind(s) ==
    IF s.current_test_index = 0 THEN s
    ELSE LET s1 == CancelAllCoroutines(
                       [s EXCEPT !.trace.handled = s.current_test_index])
         IN  [BeginDrain(FlushPendingWrites(s1)) EXCEPT
                 !.flush = TRUE,
                 !.kont = <<[exc |-> FALSE, what |-> ""]>> \o @]

\* TestRunner::on_test_complete up to and including the flush that opens
\* cleanup_all_coroutines' run_ready(true); the drain goes on in RunReady,
\* and OnTestCompleteFinish follows when the queue is empty.
OnTestComplete(s) ==
    IF s.current_test_index = 0 THEN s
    ELSE LET h   == s.current_test_handle
             exc == IF h # 0 THEN s.frames[h].exception_ ELSE FALSE
             msg == IF exc THEN s.frames[h].what ELSE ""
             s1  == CancelAllCoroutines(
                        [s EXCEPT !.trace.handled = s.current_test_index])
         IN  [BeginDrain(FlushPendingWrites(s1)) EXCEPT
                 !.flush = TRUE,
                 !.kont = <<[exc |-> exc, what |-> msg]>> \o @]

\* Faulty variant: report_results that returns instead of exiting on a failure
ReportResultsNoExit(s) == [s EXCEPT !.report_calls = @ + 1]

\* TestRunner::report_results
ReportResults(s) ==
    LET failed == Cardinality({i \in 1..Len(s.results) : ~s.results[i].passed})
    IN  [s EXCEPT !.report_calls = @ + 1,
                  !.exit_code = IF failed > 0 THEN 1 ELSE @]

\* Faulty variant: a catch block that swallows the exception
CatchTestCreationSilent(s, idx) == s

\* run_next_test, lines 824-836: the catch block around the call of the test
\* function, up to the call of run_next_test
CatchTestCreation(s, idx) ==
    [s EXCEPT !.results =
        Append(@, [name |-> tests[idx].name, passed |-> FALSE,
                   error_message |-> tests[idx].fn])]

\* what the catch block changed: s is the state when the test function
\* threw, r the state when the catch block calls run_next_test
CreationCaught(s, r, idx) ==
    [r EXCEPT !.trace.ctor = @ \cup
        {[test |-> idx,
          added |-> SubSeq(r.results, Len(s.results) + 1, Len(r.results)),
          kept |-> /\ r.ready = s.ready
                   /\ r.pending_writes = s.pending_writes
                   /\ r.active_coroutines = s.active_coroutines
                   /\ r.frames = s.frames
                   /\ r.timers = s.timers /\ r.edges = s.edges
                   /\ r.current_test_handle = s.current_test_handle,
          idle |-> r.ready = <<>> /\ r.active_coroutines = {}]}]

\* TestRunner::run_next_test up to and including the flush that opens its
\* run_ready(); the drain goes on in RunReady.
RECURSIVE RunNextTest(_)
RunNextTest(s) ==
    IF s.current_test_index >= Len(tests)
    THEN LET s1 == ReportResults(s)
         IN  IF Stopped(s1) THEN s1 ELSE [s1 EXCEPT !.finish_calls = @ + 1]
    ELSE LET idx == s.current_test_index + 1
             s1  == [s EXCEPT !.current_test_index = idx]
         IN  IF CtorThrows(tests[idx].fn)
             THEN RunNextTest(
                      CreationCaught(s1, CatchTestCreation(s1, idx), idx))
             ELSE LET h  == Len(s.frames) + 1
                      s2 == [s1 EXCEPT
                               !.frames = Append(@,
                                   [NewFrame(tests[idx].fn, idx)
                                       EXCEPT !.detached = TRUE]),
                               !.current_test_handle = h,
                               !.trace.t0 = s.now]
                  IN  [BeginDrain(FlushPendingWrites(ScheduleHandle(s2, h)))
                          EXCEPT !.flush = TRUE]

\* Faulty variant: on_test_complete that stops the run at the first failed test
OnTestCompleteFinishStop(s, te) ==
    LET h  == s.current_test_handle
        s1 == IF h # 0
              THEN [Destroy(UnregisterActiveCoroutine(s, h), h)
                       EXCEPT !.current_test_handle = 0]
              ELSE s
        s2 == [s1 EXCEPT !.results =
                  Append(@, [name |-> tests[s.current_test_index].name,
                             passed |-> ~te.exc,
                             error_message |-> te.what])]
    IN  IF te.exc THEN ReportResults(s2) ELSE RunNextTest(s2)

\* Faulty variant: on_test_complete that leaves the test's frame alone
OnTestCompleteFinishLeak(s, te) ==
    RunNextTest([s EXCEPT
        !.current_test_handle = 0,
        !.results = Append(@, [name |-> tests[s.current_test_index].name,
                               passed |-> ~te.exc,
                               error_message |-> te.what])])

\* the rest of TestRunner::on_test_complete, after cleanup_all_coroutines;
\* te is test_exception: whether it is set, and its message
OnTestCompleteFinish(s, te) ==
    LET h  == s.current_test_handle
        s1 == IF h # 0
              THEN [Destroy(UnregisterActiveCoroutine(s, h), h)
                       EXCEPT !.current_test_handle = 0]
              ELSE s
        s2 == [s1 EXCEPT !.results =
                  Append(@, [name |-> tests[s.current_test_index].name,
                             passed |-> ~te.exc,
                             error_message |-> te.what])]
    IN  RunNextTest(s2)

-----------------------------------------------------------------------------
(* Scheduler::run_ready.                                                   *)

\* run_ready, lines 593-629: the resumed coroutine h is at its final suspend
Complete(s, h) ==
    LET s1 == UnregisterActiveCoroutine(
                  SetPromise(s, h, "completed", TRUE), h)
        jw == s1.frames[h].join_waiter
    IN  IF jw # 0
        THEN IF s1.flush /\ s1.pending_writes # <<>>
             THEN ScheduleAfterTime(
                      [FlushPendingWrites(s1) EXCEPT !.mid = TRUE], jw, 0)
             ELSE EnqueueReady(s1, jw)
        ELSE IF s1.current_test_handle # 0 /\ s1.current_test_handle = h
        THEN OnTestComplete(s1)
        ELSE IF PromiseFlag(s1, h, "detached") THEN Destroy(s1, h)
        ELSE s1

\* what run_ready did for a coroutine h that completed with a join waiter
\* in a flushing drain while writes were queued: s is the state when h
\* reached its final suspend, r the state when the loop goes on
Completed(s, r, h) ==
    LET jw == s.frames[h].join_waiter
    IN  IF jw # 0 /\ s.flush /\ s.pending_writes # <<>>
        THEN [r EXCEPT !.trace.bounces = @ \cup
                 {[applied |-> /\ r.pending_writes = <<>>
                               /\ \A i \in 1..Len(s.pending_writes) :
                                     \E k \in i..Len(s.pending_writes) :
                                        /\ s.pending_writes[k][1] =
                                               s.pending_writes[i][1]
                                        /\ r.sig[s.pending_writes[k][1]] =
                                               s.pending_writes[k][2],
                   queued |-> \E i \in 1..Len(r.ready) : r.ready[i] = jw,
                   timer |-> \E i \in 1..Len(r.timers) :
                                r.timers[i] = [coro |-> jw, delay |-> 0]]}]
        ELSE r

\* run_ready, lines 585-629: what the loop does with one dequeued handle
RunReadyHandle(s, h) ==
    IF h = 0 THEN s
    ELSE LET s1 == Touch(s, h, "ready_queue_dangling")
         IN  IF PromiseFlag(s1, h, "cancelled") THEN Destroy(s1, h)
             ELSE LET s2 == Resume(s1, h)
                  IN  IF Done(s2, h) THEN Completed(s2, Complete(s2, h), h)
                      ELSE s2

\* the loop of run_ready; the flush that opens run_ready(true) is done by
\* the caller.  A nested run_ready drains the same queue, so the calls that
\* are nested in the code are one loop here.
RECURSIVE RunReady(_)
RunReady(s) ==
    IF Stopped(s) THEN s
    ELSE IF s.ready = <<>>
    THEN IF s.kont = <<>> THEN s
         ELSE RunReady(OnTestCompleteFinish([s EXCEPT !.kont = Tail(@)],
                                            Head(s.kont)))
    ELSE RunReady(RunReadyHandle([s EXCEPT !.ready = Tail(@)], Head(s.ready)))

-----------------------------------------------------------------------------
(* Initial state: any list of 1..MaxTests registered tests, nothing run.   *)

\* no Timer is under conversion
NoConv == [delay |-> <<>>, unit |-> "step", precision |-> SimPrecision,
           ticks |-> <<>>, done |-> FALSE]

\* no Handle object is under observation
NoDut == [valid |-> FALSE, design |-> {}, cache_ |-> <<>>, queries |-> <<>>,
          returned |-> <<>>]

Suites == UNION {[1..n -> TestFns] : n \in 1..MaxTests}

Init ==
    /\ \E fns \in Suites :
          tests = [i \in DOMAIN fns |-> [name |-> i, fn |-> fns[i]]]
    /\ frames = <<>>
    /\ ready = <<>>
    /\ pending_writes = <<>>
    /\ rw_cb_pending = FALSE
    /\ in_readonly = FALSE
    /\ need_rw_after_ro = FALSE
    /\ active_coroutines = {}
    /\ results = <<>>
    /\ current_test_index = 0
    /\ current_test_handle = 0
    /\ started = FALSE
    /\ sig = [sg \in Signals |-> 0]
    /\ timers = <<>>
    /\ edges = <<>>
    /\ rw_regs = 0
    /\ ro_regs = 0
    /\ nt_regs = 0
    /\ nt_due = 0
    /\ finish_calls = 0
    /\ report_calls = 0
    /\ exit_code = 0
    /\ aborted = FALSE
    /\ now = 0
    /\ conv = NoConv
    /\ gpi_fail_at = 0
    /\ dut = NoDut
    /\ clock = DffClock
    /\ bridge = NoBridge
    /\ trace = EmptyTrace

-----------------------------------------------------------------------------
(* Actions: the callbacks the simulator makes.                             *)

RemoveAt(q, i) == SubSeq(q, 1, i - 1) \o SubSeq(q, i + 1, Len(q))

Running == started /\ exit_code = 0 /\ ~aborted

\* something of the current time step is still to fire
StepBusy ==
    \/ rw_regs > 0
    \/ nt_due > 0
    \/ \E i \in 1..Len(timers) : timers[i].delay = 0
    \/ \E i \in 1..Len(edges) : edges[i].due

\* on_sim_start -> TestRunner::start_all_tests, up to its drain
SimStartBegin(u) ==
    RunNextTest([St("start", u) EXCEPT !.results = <<>>,
                                       !.current_test_index = 0])

\* Scheduler::edge_callback of registration i, up to its drain
EdgeCallbackBegin(i, u) ==
    [St("edge", u) EXCEPT
        !.edges = RemoveAt(@, i),
        !.ready = Append(@, edges[i].coro),
        !.flush = FALSE,
        !.trace.edge_stale =
            IF frames[edges[i].coro].wpending
            THEN @ \cup {edges[i].coro} ELSE @]

\* Scheduler::readwrite_callback -> run_ready(true), up to its loop
ReadwriteCallbackBegin(u) ==
    BeginDrain(FlushPendingWrites(
        [St("rw", u) EXCEPT !.rw_regs = @ - 1, !.flush = TRUE]))

\* Scheduler::readonly_callback, up to its drain
ReadonlyCallbackBegin(u) ==
    [St("ro", u) EXCEPT !.ro_regs = @ - 1,
                        !.in_readonly = TRUE,
                        !.flush = FALSE]

\* readonly_callback after its drain r1 (lines 660-665)
ReadonlyCallbackEnd(r1) ==
    LET r2 == [r1 EXCEPT !.in_readonly = FALSE]
        r3 == IF r2.need_rw_after_ro
              THEN [r2 EXCEPT !.need_rw_after_ro = FALSE,
                              !.nt_regs = @ + 1,
                              !.trace.nt_time = Append(@, now)]
              ELSE r2
    IN  IF Stopped(r1) THEN r1
        ELSE [r3 EXCEPT !.trace.rolog = @ \cup
                 {[req |-> r1.roreq,
                   rw  |-> r3.rw_regs - rw_regs,
                   nt  |-> r3.nt_regs - nt_regs]}]

\* the callback of trampoline ctx up to its drain
CallbackBegin(ctx, i, u) ==
    CASE ctx = "start" -> SimStartBegin(u)
      [] ctx = "edge"  -> EdgeCallbackBegin(i, u)
      [] ctx = "rw"    -> ReadwriteCallbackBegin(u)
      [] ctx = "ro"    -> ReadonlyCallbackBegin(u)

\* the callback of trampoline ctx after its drain r1
CallbackEnd(ctx, r1) == IF ctx = "ro" THEN ReadonlyCallbackEnd(r1) ELSE r1

\* the state the callback of trampoline ctx leaves
CallbackResult(ctx, i, u) ==
    CallbackEnd(ctx, RunReady(CallbackBegin(ctx, i, u)))

RECURSIVE Outcomes(_, _, _)

\* r is the state the callback leaves under one outcome of its dangling
\* accesses: a callback that made no dangling access has no other outcome
OutcomesFrom(r, ctx, i, rest) ==
    IF rest = {} \/ ~r.ubhit THEN {r}
    ELSE {r} \cup Outcomes(ctx, i, rest)

\* the states the callback of trampoline ctx can leave, over the outcomes us
\* of a dangling access
Outcomes(ctx, i, us) ==
    LET u == CHOOSE x \in us : TRUE
    IN  OutcomesFrom(CallbackResult(ctx, i, u), ctx, i, us \ {u})

\* one callback that drains the ready queue
Callback(ctx, i) == \E r \in Outcomes(ctx, i, UBOutcomes) : Commit(r)

SimStart ==
    /\ ~started
    /\ started' = TRUE
    /\ Callback("start", 0)
    /\ UNCHANGED <<clock, bridge>>

\* Scheduler::timer_callback
TimerCallback ==
    /\ Running
    /\ \E i \in 1..Len(timers) :
          /\ timers[i].delay = 0
          /\ Commit(ScheduleReadwrite(
                 [St("timer", "false") EXCEPT
                     !.timers = RemoveAt(@, i),
                     !.frames[timers[i].coro].twake = TRUE,
                     !.frames[timers[i].coro].tpend = (pending_writes # <<>>)],
                 timers[i].coro))
    /\ UNCHANGED <<started, clock, bridge>>

EdgeCallback ==
    /\ Running
    /\ \E i \in 1..Len(edges) :
          /\ edges[i].due
          /\ Callback("edge", i)
    /\ UNCHANGED <<started, clock, bridge>>

ReadwriteCallback ==
    /\ Running
    /\ rw_regs > 0
    /\ Callback("rw", 0)
    /\ UNCHANGED <<started, clock, bridge>>

\* Scheduler::readonly_callback.  No order is assumed among the callbacks
\* that are pending in one time step.
ReadonlyCallback ==
    /\ Running
    /\ ro_regs > 0
    /\ Callback("ro", 0)
    /\ UNCHANGED <<started, clock, bridge>>

\* Scheduler::nexttime_rw_callback
NexttimeRwCallback ==
    /\ Running
    /\ nt_due > 0
    /\ LET r == RequestReadwriteCallback(
                    [St("nexttime", "false") EXCEPT !.nt_due = @ - 1])
       IN  Commit([r EXCEPT !.trace.ntlog = @ \cup
                      {<<r.rw_cb_pending /\ r.rw_regs >= 1,
                         now > Head(trace.nt_time)>>},
                            !.trace.nt_time = Tail(@)])
    /\ UNCHANGED <<started, clock, bridge>>

\* the simulator advances to the next time at which something is scheduled
AdvanceTime ==
    /\ Running
    /\ ~StepBusy
    /\ ro_regs = 0
    /\ timers # <<>> \/ nt_regs > 0
    /\ LET d == IF timers = <<>> THEN 1
                ELSE Min({timers[i].delay : i \in 1..Len(timers)})
       IN  /\ timers' = [i \in 1..Len(timers) |->
                            [timers[i] EXCEPT !.delay = @ - d]]
           /\ now' = now + d
           /\ nt_due' = nt_regs
           /\ nt_regs' = 0
    /\ UNCHANGED <<frames, ready, pending_writes, rw_cb_pending, in_readonly,
                   need_rw_after_ro, active_coroutines, tests, results,
                   current_test_index, current_test_handle, started, sig,
                   edges, rw_regs, ro_regs, finish_calls, report_calls,
                   exit_code, aborted, conv, gpi_fail_at, dut,
                   clock, bridge, trace>>

\* Tests whose coroutines end in exceptions, with tests that register timed,
\* value-change and read-only callbacks, run by a simulator that may refuse
\* one of the first MaxFailAt timed or value-change registrations.
FaultFns == {"test_pass", "test_await_throw", "test_join_throw",
             "test_chain_throw", "test_clock", "test_batch", "test_ro_end",
             "test_drop", "test_spawn_end"}

FaultSuites == UNION {[1..n -> FaultFns] : n \in 1..MaxTests}

InitFaults ==
    /\ \E fns \in FaultSuites :
          tests = [i \in DOMAIN fns |-> [name |-> i, fn |-> fns[i]]]
    /\ gpi_fail_at \in 0..MaxFailAt
    /\ frames = <<>>
    /\ ready = <<>>
    /\ pending_writes = <<>>
    /\ rw_cb_pending = FALSE
    /\ in_readonly = FALSE
    /\ need_rw_after_ro = FALSE
    /\ active_coroutines = {}
    /\ results = <<>>
    /\ current_test_index = 0
    /\ current_test_handle = 0
    /\ started = FALSE
    /\ sig = [sg \in Signals |-> 0]
    /\ timers = <<>>
    /\ edges = <<>>
    /\ rw_regs = 0
    /\ ro_regs = 0
    /\ nt_regs = 0
    /\ nt_due = 0
    /\ finish_calls = 0
    /\ report_calls = 0
    /\ exit_code = 0
    /\ aborted = FALSE
    /\ now = 0
    /\ conv = NoConv
    /\ dut = NoDut
    /\ clock = DffClock
    /\ bridge = NoBridge
    /\ trace = EmptyTrace

Next ==
    \/ SimStart
    \/ TimerCallback
    \/ EdgeCallback
    \/ ReadwriteCallback
    \/ ReadonlyCallback
    \/ NexttimeRwCallback
    \/ AdvanceTime

Spec == Init /\ [][Next]_vars

SpecFaults == InitFaults /\ [][Next]_vars

-----------------------------------------------------------------------------
(* Timer::await_suspend on its own: one Timer(delay, unit) is awaited      *)
(* under a simulator of some precision.                                    *)

Units == {"fs", "ps", "ns", "us", "ms", "step"}

Precisions == {UnitExp(u) : u \in Units \ {"step"}}

\* 2^k + n
Pow2Plus(k, n) == Add(ShiftL(<<1>>, k), FromNat(n))

Delays ==
    {FromNat(1), FromNat(7), FromNat(999), FromNat(1000), FromNat(1001),
     FromNat(123456789), FromNat(2147483647),
     Pow2Plus(50, 1), Pow2Plus(53, 0), Pow2Plus(53, 1), Pow2Plus(53, 3),
     Pow2Plus(63, 1025), [i \in 1..Uint64Bits |-> 1]}

InitTimer ==
    /\ conv \in [delay : Delays, unit : Units, precision : Precisions,
                 ticks : {<<>>}, done : {FALSE}]
    /\ tests = <<>>
    /\ frames = <<>>
    /\ ready = <<>>
    /\ pending_writes = <<>>
    /\ rw_cb_pending = FALSE
    /\ in_readonly = FALSE
    /\ need_rw_after_ro = FALSE
    /\ active_coroutines = {}
    /\ results = <<>>
    /\ current_test_index = 0
    /\ current_test_handle = 0
    /\ started = FALSE
    /\ sig = [sg \in Signals |-> 0]
    /\ timers = <<>>
    /\ edges = <<>>
    /\ rw_regs = 0
    /\ ro_regs = 0
    /\ nt_regs = 0
    /\ nt_due = 0
    /\ finish_calls = 0
    /\ report_calls = 0
    /\ exit_code = 0
    /\ aborted = FALSE
    /\ now = 0
    /\ gpi_fail_at = 0
    /\ dut = NoDut
    /\ clock = DffClock
    /\ bridge = NoBridge
    /\ trace = EmptyTrace

\* Timer::await_suspend: the timed callback is registered for delay_final
\* ticks (conv.ticks)
TimerAwaitSuspend ==
    /\ ~conv.done
    /\ \E d \in DelayFinalOutcomes(conv.delay, conv.unit, conv.precision) :
          conv' = [conv EXCEPT !.ticks = d, !.done = TRUE]
    /\ UNCHANGED <<frames, ready, pending_writes, rw_cb_pending, in_readonly,
                   need_rw_after_ro, active_coroutines, tests, results,
                   current_test_index, current_test_handle, started, sig,
                   timers, edges, rw_regs, ro_regs, nt_regs, nt_due,
                   finish_calls, report_calls, exit_code, aborted, now,
                   gpi_fail_at, dut,
                   clock, bridge, trace>>

NextTimer == TimerAwaitSuspend

SpecTimer == InitTimer /\ [][NextTimer]_vars

-----------------------------------------------------------------------------
(* Handle::operator[]: one Handle object, indexed by names of which the    *)
(* simulator resolves those in dut.design.  cache_ is the object's map,    *)
(* queries[n] counts the gpi_get_handle_by_name calls made for n, and      *)
(* returned[n] lists the raw handles the calls for n returned ("null": an  *)
(* invalid Handle).                                                        *)

Names == {"clk", "d", "nope"}

\* gpi_get_handle_by_name(handle_, name, GPI_AUTO)
GpiGetHandleByName(d, name) == IF name \in d.design THEN name ELSE "null"

\* Handle::operator[](name) on the object d: the object afterwards, with the
\* call's result appended to returned[name]
HandleIndex(d, name) ==
    IF ~d.valid
    THEN [d EXCEPT !.returned[name] = Append(@, "null")]
    ELSE IF name \in DOMAIN d.cache_
    THEN [d EXCEPT !.returned[name] = Append(@, d.cache_[name])]
    ELSE LET child == GpiGetHandleByName(d, name)
             d1    == [d EXCEPT !.queries[name] = @ + 1,
                                 !.returned[name] = Append(@, child)]
         IN  IF child = "null" THEN d1
             ELSE [d1 EXCEPT !.cache_ =
                      [n \in DOMAIN @ \cup {name} |->
                          IF n = name THEN child ELSE @[n]]]

InitHandle ==
    /\ dut \in [valid : BOOLEAN, design : SUBSET Names, cache_ : {<<>>},
                 queries : {[n \in Names |-> 0]},
                 returned : {[n \in Names |-> <<>>]}]
    /\ tests = <<>>
    /\ frames = <<>>
    /\ ready = <<>>
    /\ pending_writes = <<>>
    /\ rw_cb_pending = FALSE
    /\ in_readonly = FALSE
    /\ need_rw_after_ro = FALSE
    /\ active_coroutines = {}
    /\ results = <<>>
    /\ current_test_index = 0
    /\ current_test_handle = 0
    /\ started = FALSE
    /\ sig = [sg \in Signals |-> 0]
    /\ timers = <<>>
    /\ edges = <<>>
    /\ rw_regs = 0
    /\ ro_regs = 0
    /\ nt_regs = 0
    /\ nt_due = 0
    /\ finish_calls = 0
    /\ report_calls = 0
    /\ exit_code = 0
    /\ aborted = FALSE
    /\ now = 0
    /\ conv = NoConv
    /\ gpi_fail_at = 0
    /\ clock = DffClock
    /\ bridge = NoBridge
    /\ trace = EmptyTrace

\* a call handle[name], at most MaxCalls of them for each name
HandleLookup ==
    /\ \E name \in Names :
          /\ Len(dut.returned[name]) < MaxCalls
          /\ dut' = HandleIndex(dut, name)
    /\ UNCHANGED <<frames, ready, pending_writes, rw_cb_pending, in_readonly,
                   need_rw_after_ro, active_coroutines, tests, results,
                   current_test_index, current_test_handle, started, sig,
                   timers, edges, rw_regs, ro_regs, nt_regs, nt_due,
                   finish_calls, report_calls, exit_code, aborted, now, conv,
                   gpi_fail_at, clock, bridge, trace>>

NextHandle == HandleLookup

SpecHandle == InitHandle /\ [][NextHandle]_vars

-----------------------------------------------------------------------------
(* The Clock coroutine on its own, its body executed one instruction at a  *)
(* time: Clock(dut, period, unit) has been passed to start_soon, and the   *)
(* callback that did so is in its run_ready loop (clock.drain).  The       *)
(* simulator calls a callback only after the previous one has returned.    *)

\* Largest period a Clock is started with.
MaxPeriod == 3

\* Number of times the simulator advances time.
MaxAdvances == 3

\* Number of writes one resumption of Clock is followed through.
MaxQueued == 3

\* the frame of the Clock coroutine
ClockFrame == 1

InitClock ==
    /\ clock \in [period : 1..MaxPeriod, unit : Units, advances : {0},
                  drain : {TRUE}]
    /\ frames = << [NewFrame("Clock", 0) EXCEPT !.detached = TRUE] >>
    /\ ready = << ClockFrame >>
    /\ active_coroutines = {ClockFrame}
    /\ tests = <<>>
    /\ pending_writes = <<>>
    /\ rw_cb_pending = FALSE
    /\ in_readonly = FALSE
    /\ need_rw_after_ro = FALSE
    /\ results = <<>>
    /\ current_test_index = 0
    /\ current_test_handle = 0
    /\ started = TRUE
    /\ sig = [sg \in Signals |-> 0]
    /\ timers = <<>>
    /\ edges = <<>>
    /\ rw_regs = 0
    /\ ro_regs = 0
    /\ nt_regs = 0
    /\ nt_due = 0
    /\ finish_calls = 0
    /\ report_calls = 0
    /\ exit_code = 0
    /\ aborted = FALSE
    /\ now = 0
    /\ conv = NoConv
    /\ gpi_fail_at = 0
    /\ dut = NoDut
    /\ bridge = NoBridge
    /\ trace = EmptyTrace

\* the Clock coroutine has been resumed and has not suspended since: it is
\* neither in the ready queue nor waiting for a timed callback
ClockRunning ==
    /\ clock.drain
    /\ Occurrences(ready, ClockFrame) = 0
    /\ \A i \in 1..Len(timers) : timers[i].coro # ClockFrame

\* run_ready takes the handle from the ready queue and resumes it
ClockResume ==
    /\ clock.drain
    /\ ready # <<>>
    /\ ~frames[Head(ready)].cancelled
    /\ Commit([St("rw", "false") EXCEPT !.ready = Tail(@),
                                         !.frames[Head(ready)].twake = FALSE])
    /\ UNCHANGED <<started, clock, bridge>>

\* one instruction of the body of Clock
ClockStep ==
    /\ ClockRunning
    /\ Len(pending_writes) < MaxQueued
    /\ Commit(Step(St("rw", "false"), ClockFrame))
    /\ UNCHANGED <<started, clock, bridge>>

\* run_ready finds the ready queue empty and the callback returns
ClockDrainEnd ==
    /\ clock.drain
    /\ ready = <<>>
    /\ ~ClockRunning
    /\ clock' = [clock EXCEPT !.drain = FALSE]
    /\ UNCHANGED <<frames, ready, pending_writes, rw_cb_pending, in_readonly,
                   need_rw_after_ro, active_coroutines, tests, results,
                   current_test_index, current_test_handle, started, sig,
                   timers, edges, rw_regs, ro_regs, nt_regs, nt_due,
                   finish_calls, report_calls, exit_code, aborted, now, conv,
                   gpi_fail_at, dut, bridge, trace>>

\* Scheduler::readwrite_callback, up to the loop of run_ready
ClockReadwriteCallback ==
    /\ ~clock.drain
    /\ rw_regs > 0
    /\ Commit(ReadwriteCallbackBegin("false"))
    /\ clock' = [clock EXCEPT !.drain = TRUE]
    /\ UNCHANGED <<started, bridge>>

\* Scheduler::timer_callback
ClockTimerCallback ==
    /\ ~clock.drain
    /\ TimerCallback

\* the simulator advances to the time of the timed callback
ClockAdvanceTime ==
    /\ ~clock.drain
    /\ clock.advances < MaxAdvances
    /\ ~StepBusy
    /\ timers # <<>>
    /\ LET d == Min({timers[i].delay : i \in 1..Len(timers)})
       IN  /\ timers' = [i \in 1..Len(timers) |->
                            [timers[i] EXCEPT !.delay = @ - d]]
           /\ now' = now + d
    /\ clock' = [clock EXCEPT !.advances = @ + 1]
    /\ UNCHANGED <<frames, ready, pending_writes, rw_cb_pending, in_readonly,
                   need_rw_after_ro, active_coroutines, tests, results,
                   current_test_index, current_test_handle, started, sig,
                   edges, rw_regs, ro_regs, nt_regs, nt_due, finish_calls,
                   report_calls, exit_code, aborted, conv, gpi_fail_at, dut,
                   bridge, trace>>

NextClock ==
    \/ ClockResume
    \/ ClockStep
    \/ ClockDrainEnd
    \/ ClockReadwriteCallback
    \/ ClockTimerCallback
    \/ ClockAdvanceTime

SpecClock == InitClock /\ [][NextClock]_vars

-----------------------------------------------------------------------------
(* run_python_test (src/src/cocotb_python_runner.h): the coroutine that    *)
(* drives a Python test.  bridge.script is what the Python coroutine does  *)
(* at each send(): yield an object or raise.  A Python object is a record  *)
(* of its type and value; a str that is a hierarchical path is the         *)
(* sequence of its dot-separated components.  bridge.log has one entry for *)
(* each object the runner was handed.                                      *)

\* Longest script a Python test is run with.
MaxScript == 2

\* a Python int (n), str (s), int that does not fit a long long, or None
PyObj(type, n, s) == [type |-> type, n |-> n, s |-> s]

\* PythonOpState behind a capsule: named: the capsule has the name
\* kPythonOpCapsuleName; null: the shared_ptr is empty; handle: the state
\* holds a coroutine handle; fails: the op's coroutine body throws, which
\* run_python_op records in state->error
OpState(named, null, handle, fails, result_kind) ==
    [named |-> named, null |-> null, handle |-> handle, fails |-> fails,
     result_kind |-> result_kind, value_u32 |-> 7]

NoOp == OpState(FALSE, TRUE, FALSE, FALSE, "None")

\* the attribute _cocotb_cpp_payload: a tuple or list (items), a str (path),
\* a capsule (op), an int, or missing
Payload(type, items, path, op) ==
    [type |-> type, items |-> items, path |-> path, op |-> op]

\* an object with the attributes _cocotb_cpp_kind and _cocotb_cpp_payload
Token(kind, payload) == [kind_type |-> "str", kind |-> kind, payload |-> payload]

Tokens ==
    {Token("timer", Payload(ty, its, <<>>, NoOp)) :
        ty \in {"tuple"},
        its \in {<<PyObj("int", 0, ""), PyObj("str", 0, "ns")>>,
                 <<PyObj("int", 5, ""), PyObj("str", 0, "step")>>,
                 <<PyObj("int", 5, ""), PyObj("str", 0, "sec")>>,
                 <<PyObj("int", -1, ""), PyObj("str", 0, "ns")>>,
                 <<PyObj("str", 0, "5"), PyObj("str", 0, "ns")>>,
                 <<PyObj("bigint", 0, ""), PyObj("str", 0, "ns")>>,
                 <<PyObj("int", 5, ""), PyObj("str", 0, "parsec")>>,
                 <<PyObj("int", 5, ""), PyObj("int", 1, "")>>,
                 <<PyObj("int", 5, "")>>}}
    \cup {Token("timer", Payload("list", <<PyObj("int", 5, ""),
                                           PyObj("str", 0, "ns")>>, <<>>, NoOp)),
          Token("timer", Payload("missing", <<>>, <<>>, NoOp))}
    \cup {Token(k, Payload("str", <<>>, path, NoOp)) :
             k \in {"rising_edge", "edge"},
             path \in {<<"dut", "clk">>, <<"clk">>, <<"dut", "nope">>, <<>>}}
    \cup {Token(k, Payload("int", <<>>, <<>>, NoOp)) :
             k \in {"rising_edge", "edge"}}
    \cup {Token("op", Payload("capsule", <<>>, <<>>, op)) :
             op \in {OpState(TRUE, FALSE, TRUE, FALSE, "None"),
                     OpState(TRUE, FALSE, TRUE, FALSE, "U32"),
                     OpState(TRUE, FALSE, TRUE, TRUE, "None"),
                     OpState(TRUE, FALSE, FALSE, FALSE, "None"),
                     OpState(TRUE, TRUE, FALSE, FALSE, "None"),
                     OpState(FALSE, FALSE, TRUE, FALSE, "None")}}
    \cup {Token("op", Payload("str", <<>>, <<"dut", "clk">>, NoOp)),
          Token("bogus", Payload("str", <<>>, <<"clk">>, NoOp)),
          [kind_type |-> "missing", kind |-> "",
           payload |-> Payload("missing", <<>>, <<>>, NoOp)],
          [kind_type |-> "int", kind |-> "",
           payload |-> Payload("missing", <<>>, <<>>, NoOp)]}

UnitNames == {"fs", "ps", "ns", "us", "ms", "sec", "step"}

\* Faulty variant: a name that is no unit is taken for unit::step
UnitFromStringLenient(unit_name) ==
    [ok |-> TRUE,
     unit |-> IF unit_name \in UnitNames THEN UnitExp(unit_name) ELSE 0]

\* common::unit_from_string: the enumerator, or ok = FALSE when it throws
UnitFromString(unit_name) ==
    IF unit_name \in UnitNames
    THEN [ok |-> TRUE, unit |-> UnitExp(unit_name)]
    ELSE [ok |-> FALSE, unit |-> 0]

\* PyLong_AsLongLong: -1 with the error indicator set for what is no int
\* and for an int out of range
PyLongAsLongLong(obj) ==
    IF obj.type = "int" THEN [err |-> FALSE, v |-> obj.n]
    ELSE [err |-> TRUE, v |-> -1]

NullHdl == [valid |-> FALSE, at |-> <<>>]

\* common::resolve_handle_from_path, the root handle being available and
\* named dut; gpi_get_handle_by_name resolves clk and d from it
ResolveHandleFromPath(path) ==
    IF path = <<>> \/ path = <<"dut">> THEN [valid |-> TRUE, at |-> <<>>]
    ELSE IF path \in {<<"clk">>, <<"d">>} THEN [valid |-> TRUE, at |-> path]
    ELSE IF Len(path) > 1 /\ Tail(path) \in {<<"clk">>, <<"d">>}
    THEN [valid |-> TRUE, at |-> Tail(path)]
    ELSE NullHdl

\* a default-constructed AwaitSpec
NoSpec ==
    [kind |-> "", delay |-> 0, unit |-> 0, path |-> <<>>, op_state |-> NoOp]

\* parse_awaitable throws
ParseError(msg) == [ok |-> FALSE, error |-> msg, spec |-> NoSpec]

\* detail::parse_awaitable
ParseAwaitable(yielded) ==
    LET payload == yielded.payload
        delay == PyLongAsLongLong(payload.items[1])
        unit_obj == payload.items[2]
    IN  IF yielded.kind_type = "missing"
        THEN ParseError("missing _cocotb_cpp_kind")
        ELSE IF yielded.kind_type # "str" THEN ParseError("python error")
        ELSE IF payload.type = "missing"
        THEN ParseError("missing _cocotb_cpp_payload")
        ELSE IF yielded.kind = "timer"
        THEN IF payload.type # "tuple" \/ Len(payload.items) # 2
             THEN ParseError("Timer awaitable payload must be (delay, unit).")
             ELSE IF delay.v < 0 \/ (delay.v = -1 /\ delay.err)
             THEN ParseError("python error")
             ELSE IF unit_obj.type # "str" THEN ParseError("python error")
             ELSE IF ~UnitFromString(unit_obj.s).ok
             THEN ParseError("Unsupported time unit")
             ELSE [ok |-> TRUE, error |-> "",
                   spec |-> [NoSpec EXCEPT
                                !.kind = "Timer", !.delay = delay.v,
                                !.unit = UnitFromString(unit_obj.s).unit]]
        ELSE IF yielded.kind = "rising_edge"
        THEN IF payload.type # "str" THEN ParseError("python error")
             ELSE [ok |-> TRUE, error |-> "",
                   spec |-> [NoSpec EXCEPT !.kind = "RisingEdge",
                                           !.path = payload.path]]
        ELSE IF yielded.kind = "op"
        THEN IF payload.type # "capsule"
             THEN ParseError("Op awaitable payload must be a capsule.")
             ELSE IF ~payload.op.named THEN ParseError("python error")
             ELSE IF payload.op.null
             THEN ParseError("Op capsule contains null state.")
             ELSE [ok |-> TRUE, error |-> "",
                   spec |-> [NoSpec EXCEPT !.kind = "Op",
                                           !.op_state = payload.op]]
        ELSE ParseError("Unsupported cocotb_cpp awaitable kind")

\* what the runner co_awaits: nothing, or a Timer (delay, unit), a
\* RisingEdge (hdl) or the join of an op's coroutine (op_state)
NoTrigger ==
    [kind |-> "none", delay |-> 0, unit |-> 0, hdl |-> NullHdl,
     op_state |-> NoOp]

\* the exception leaves run_python_test: the test fails
Throw(b, msg) == [b EXCEPT !.pc = "failed", !.error = msg]

LogEntry(token, trigger, state) ==
    [token |-> token, trigger |-> trigger, state |-> state,
     sent |-> PyObj("none", 0, "")]

\* the runner has parsed the yielded object and comes to its co_await
BeginAwait(b, token, spec) ==
    LET h == ResolveHandleFromPath(spec.path)
    IN  CASE spec.kind = "Timer" ->
                [b EXCEPT !.pc = "await", !.spec = spec,
                          !.log = Append(@, LogEntry(token,
                                     [NoTrigger EXCEPT !.kind = "Timer",
                                                       !.delay = spec.delay,
                                                       !.unit = spec.unit],
                                     "awaiting"))]
          [] spec.kind = "RisingEdge" ->
                IF ~h.valid
                THEN [Throw(b, "Failed to resolve signal path for RisingEdge")
                         EXCEPT !.log = Append(@, LogEntry(token, NoTrigger,
                                                           "failed"))]
                ELSE [b EXCEPT !.pc = "await", !.spec = spec,
                               !.log = Append(@, LogEntry(token,
                                          [NoTrigger EXCEPT
                                              !.kind = "RisingEdge",
                                              !.hdl = h],
                                          "awaiting"))]
          [] spec.kind = "Op" ->
                IF ~spec.op_state.handle
                THEN [Throw(b, "Op state has empty coroutine handle.")
                         EXCEPT !.log = Append(@, LogEntry(token, NoTrigger,
                                                           "failed"))]
                ELSE [b EXCEPT !.pc = "await", !.spec = spec,
                               !.log = Append(@, LogEntry(token,
                                          [NoTrigger EXCEPT
                                              !.kind = "join",
                                              !.op_state = spec.op_state],
                                          "awaiting"))]

\* one iteration of the loop of run_python_test, from coro.send(send_value)
\* to the co_await
SendAndParse(b) ==
    IF b.pos > Len(b.script) THEN [b EXCEPT !.pc = "passed"]
    ELSE LET item == b.script[b.pos]
             r    == ParseAwaitable(item.token)
         IN  IF item.raises THEN Throw(b, "Python coroutine raised")
             ELSE IF ~r.ok
             THEN [Throw(b, r.error) EXCEPT
                      !.log = Append(@, LogEntry(item.token, NoTrigger,
                                                 "failed"))]
             ELSE BeginAwait(b, item.token, r.spec)

\* the rest of the iteration, from the co_await's resumption
AfterAwait(b) ==
    LET n    == Len(b.log)
        op   == b.spec.op_state
        none == PyObj("none", 0, "")
        next == [b EXCEPT !.pc = "send", !.pos = @ + 1, !.spec = NoSpec,
                          !.log[n].state = "resumed"]
    IN  IF b.spec.kind # "Op"
        THEN [next EXCEPT !.send_value = none, !.log[n].sent = none]
        ELSE IF op.fails
        THEN [Throw(b, "op error") EXCEPT !.log[n].state = "failed"]
        ELSE IF op.result_kind = "None"
        THEN [next EXCEPT !.send_value = none, !.log[n].sent = none]
        ELSE [next EXCEPT !.send_value = PyObj("int", op.value_u32, ""),
                          !.log[n].sent = PyObj("int", op.value_u32, "")]

\* the runner before its first send(): at each send() the Python coroutine
\* yields a token or raises
InitBridge ==
    /\ \E n \in 0..MaxScript :
          bridge \in [script : [1..n ->
                                   [raises : {FALSE}, token : Tokens]
                                   \cup {[raises |-> TRUE,
                                          token |-> Token("bogus",
                                              Payload("missing", <<>>, <<>>,
                                                      NoOp))]}],
                      pos : {1}, pc : {"send"}, spec : {NoSpec},
                      send_value : {PyObj("none", 0, "")}, error : {""},
                      log : {<<>>}]
    /\ tests = <<>>
    /\ frames = <<>>
    /\ ready = <<>>
    /\ pending_writes = <<>>
    /\ rw_cb_pending = FALSE
    /\ in_readonly = FALSE
    /\ need_rw_after_ro = FALSE
    /\ active_coroutines = {}
    /\ results = <<>>
    /\ current_test_index = 0
    /\ current_test_handle = 0
    /\ started = TRUE
    /\ sig = [sg \in Signals |-> 0]
    /\ timers = <<>>
    /\ edges = <<>>
    /\ rw_regs = 0
    /\ ro_regs = 0
    /\ nt_regs = 0
    /\ nt_due = 0
    /\ finish_calls = 0
    /\ report_calls = 0
    /\ exit_code = 0
    /\ aborted = FALSE
    /\ now = 0
    /\ conv = NoConv
    /\ gpi_fail_at = 0
    /\ dut = NoDut
    /\ clock = DffClock
    /\ trace = EmptyTrace

\* the runner is resumed (for the first time, or by its trigger) and runs to
\* its next co_await or to its end
BridgeSend ==
    /\ bridge.pc = "send"
    /\ bridge' = SendAndParse(bridge)
    /\ UNCHANGED <<frames, ready, pending_writes, rw_cb_pending, in_readonly,
                   need_rw_after_ro, active_coroutines, tests, results,
                   current_test_index, current_test_handle, started, sig,
                   timers, edges, rw_regs, ro_regs, nt_regs, nt_due,
                   finish_calls, report_calls, exit_code, aborted, now, conv,
                   gpi_fail_at, dut, clock, trace>>

\* the awaited trigger resumes the runner
BridgeResume ==
    /\ bridge.pc = "await"
    /\ bridge' = AfterAwait(bridge)
    /\ UNCHANGED <<frames, ready, pending_writes, rw_cb_pending, in_readonly,
                   need_rw_after_ro, active_coroutines, tests, results,
                   current_test_index, current_test_handle, started, sig,
                   timers, edges, rw_regs, ro_regs, nt_regs, nt_due,
                   finish_calls, report_calls, exit_code, aborted, now, conv,
                   gpi_fail_at, dut, clock, trace>>

NextBridge == BridgeSend \/ BridgeResume

SpecBridge == InitBridge /\ [][NextBridge]_vars

-----------------------------------------------------------------------------
(* Claims.                                                                 *)

\* the frames created while test number i of the list was the current test
FramesOf(fn) ==
    {c \in 1..Len(frames) :
        frames[c].test \in 1..Len(tests) /\ tests[frames[c].test].fn = fn}

\* the values read at instruction pc of body p
Observed(p) == {o[3] : o \in {x \in trace.obs : x[1] = p}}

\* C1: gpi_set_signal_value_int is invoked only while the read-write
\* callback trampoline is executing (never from start of simulation, an edge
\* trampoline, a read-only trampoline or the between-test cleanup run
\* outside a read-write callback).
C1_PhaseLegality == trace.setctx \subseteq {"rw"}

C3_JoinDeterminism ==
    /\ Observed("test_join_spawn") \subseteq {1}
    /\ Observed("test_join_edge") \subseteq {1}

\* C4: a join on a child that finished before the parent awaits its
\* JoinHandle resolves without suspending the parent and destroys the
\* child's frame exactly once; no step reads or destroys a destroyed frame.
C4_JoinFinishedChild ==
    \A p \in FramesOf("test_late_join") :
        frames[p].prog = "test_late_join" /\ frames[p].pc >= 4 =>
            /\ frames[p].awaiting = 0
            /\ \A c \in FramesOf("test_late_join") :
                  frames[c].prog = "c_write" /\ frames[c].test = frames[p].test
                  => /\ frames[c].destroyed = 1
                     /\ \A e \in trace.ub : e[2] # c

\* C5: once a JoinHandle is destroyed without having been joined, the child
\* it referred to is never resumed again: when the scheduler next dequeues
\* it, it destroys the frame instead of resuming it.
C5_CancellationOnDrop == trace.dropres = {}

\* C5 witness: a child whose JoinHandle was dropped unjoined while it was
\* suspended in its body has since been dequeued and destroyed.
C5_Witness ==
    \E c \in 1..Len(frames) :
        /\ frames[c].dropped
        /\ frames[c].cancelled
        /\ ~frames[c].done
        /\ ~frames[c].alive
        /\ frames[c].resumes >= 1

\* C6: a second join on the same handle is rejected or resolves from the
\* recorded result: no installed join_waiter is overwritten, and the target
\* frame is neither destroyed twice nor accessed after its destruction.
C6_AtMostOneWaiter ==
    \A c \in FramesOf("test_double_join") :
        /\ c \notin trace.overwritten
        /\ frames[c].destroyed <= 1
        /\ \A e \in trace.ub : e[2] # c

\* C7: the tests are reported once each in registration order: the results
\* are always the names of the first tests of the list, report_results runs
\* only with one result per registered test, and a recorded result (passed
\* or failed) is always followed by the start of the next test.
C7_EveryTestReportedInOrder ==
    /\ Len(results) <= Len(tests)
    /\ \A i \in 1..Len(results) : results[i].name = tests[i].name
    /\ report_calls > 0 => Len(results) = Len(tests)
    /\ started /\ ~aborted /\ Len(results) < Len(tests)
          => /\ current_test_index = Len(results) + 1
             /\ current_test_handle \in 1..Len(frames)
             /\ frames[current_test_handle].resumes >= 1

\* C7 witness: a failed first test, a second test that ran and passed, and
\* the report.
C7_Witness ==
    /\ Len(tests) = 2
    /\ Len(results) = 2
    /\ ~results[1].passed
    /\ results[2].passed
    /\ report_calls = 1

\* C8: a test's recorded result is passed iff its top-level frame held no
\* captured exception when its body ended; the teardown of its sibling
\* coroutines does not change the verdict.
C8_PassedIffNoException ==
    \A i \in 1..Len(results) :
        \A k \in 1..Len(trace.verdicts) :
            trace.verdicts[k].test = results[i].name
            => results[i].passed = ~trace.verdicts[k].exc

\* C8 witness: a test failed by an exception rethrown from a join and a
\* test that passed while a sibling coroutine was torn down.
C8_Witness ==
    /\ Len(results) = 2
    /\ tests[1].fn = "test_await_throw" /\ ~results[1].passed
    /\ tests[2].fn = "test_clock" /\ results[2].passed

\* C9: report_results runs at most once, and only after the last test; the
\* process exits with status 1 iff a recorded result is failed at the
\* report; with no failed result gpi_finish is called exactly once, and no
\* test is started after the report.
C9_RunTermination ==
    LET failed == \E i \in 1..Len(results) : ~results[i].passed
    IN  /\ report_calls <= 1
        /\ finish_calls <= 1
        /\ report_calls = 1 => Len(results) = Len(tests)
        /\ started /\ ~aborted /\ Len(results) = Len(tests) => report_calls = 1
        /\ exit_code = 1 <=> (report_calls = 1 /\ failed)
        /\ finish_calls = 1 <=> (report_calls = 1 /\ ~failed)
        /\ report_calls = 1 => /\ current_test_index = Len(tests)
                               /\ current_test_handle = 0

\* C9 witness: a run of two tests, one failed, has exited with status 1.
C9_Witness ==
    /\ Len(tests) = 2
    /\ report_calls = 1
    /\ exit_code = 1
    /\ finish_calls = 0

\* C10: no coroutine scheduled during test i is resumed once
\* on_test_complete has handled test i's completion, even if its timer or
\* edge callback fires while a later test runs.
C10_PerTestIsolation == trace.late = {}

\* C10 witness: a coroutine of test 1, suspended in its body when test 1
\* completed, was dequeued and destroyed while test 2 was the current test.
C10_Witness ==
    \E c \in 1..Len(frames) :
        /\ frames[c].test = 1
        /\ frames[c].dtest = 2
        /\ ~frames[c].done
        /\ frames[c].resumes >= 1
        /\ ~frames[c].dropped

\* the tags logged by the coroutines of test number i, in the order logged
RECURSIVE TagsOf(_, _)
TagsOf(i, k) ==
    IF k = 0 THEN <<>>
    ELSE LET m == trace.marks[k]
         IN  IF m.test = i THEN Append(TagsOf(i, k - 1), m.tag)
             ELSE TagsOf(i, k - 1)

\* C11: of two coroutines suspended on the same rising edge of clk, the one
\* whose await was executed first (tag A) is resumed before the other (tag
\* B): no execution logs B before A.
C11_FifoResumption ==
    \A i \in 1..Len(tests) :
        tests[i].fn = "test_edge_order" =>
            TagsOf(i, Len(trace.marks)) \in {<<>>, <<"A">>, <<"A", "B">>}

\* C12 (as claimed): within one call of run_ready no write is applied to
\* the simulator before the call has finished: every coroutine resumed in
\* the call finds the signal values the call started resuming with.
C12_BatchVisibilityStrict ==
    \A b \in trace.batch : b[1]

\* C12 (amended): within one call of run_ready the signal values change
\* before the call has finished only by the flush that run_ready(true)
\* makes when a coroutine with a join waiter completes with writes queued;
\* every coroutine resumed before such a completion finds the signal values
\* the call started resuming with.
C12_BatchVisibility ==
    \A b \in trace.batch : b[1] \/ b[2]

\* C12 witness: a coroutine was resumed in a call of run_ready in which an
\* earlier coroutine had queued a write, and found the signals unchanged;
\* and one was resumed after the flush for a completed joined coroutine.
C12_Witness ==
    /\ <<TRUE, FALSE, TRUE>> \in trace.batch
    /\ \E b \in trace.batch : ~b[1] /\ b[2]

\* C13: every write a coroutine enqueued before co_await RisingEdge(clk)
\* has been applied to the simulator when the edge callback of that await
\* fires, and the coroutine reads the value it wrote when it resumes from
\* the edge.
C13_WritesAppliedByEdge ==
    /\ trace.edge_stale = {}
    /\ Observed("test_edge_sample") \subseteq {1}
    /\ Observed("test_edge_same") \subseteq {1}

\* C13 witness: a first test that wrote h in the drain in which the clock
\* wrote clk = 1, and then awaited the rising edge, has been resumed by the
\* edge callback and has read h.
C13_Witness ==
    /\ tests[1].fn = "test_edge_same"
    /\ <<"test_edge_same", 5, 1>> \in trace.obs

\* C14: a continuation that the timer trampoline put in the ready queue is
\* resumed only by a drain that first flushed the pending writes, and every
\* write that was queued when the timer fired has been applied when the
\* continuation runs, whatever the order of the callbacks of the time step.
C14_TimerResumesInReadWrite ==
    \A r \in trace.timer_res : r[2] /\ ~r[3]

\* C15: at every instant at most one read-write callback registration is
\* outstanding at the simulator.
C15_ReadWriteRequestCollapse == rw_regs <= 1

\* C16: a read-only callback registers no read-write callback, whatever
\* the coroutines it resumes request; it registers exactly one next-time
\* callback if a request was made while in_readonly was set and none
\* otherwise, and returns with in_readonly and need_rw_after_ro cleared;
\* when the next-time callback fires, in a later time step, a read-write
\* callback is registered.
C16_ReadOnlyDeferral ==
    /\ \A r \in trace.rolog :
          r.rw = 0 /\ r.nt = (IF r.req THEN 1 ELSE 0)
    /\ exit_code = 0 /\ ~aborted => ~in_readonly /\ ~need_rw_after_ro
    /\ \A n \in trace.ntlog : n[1] /\ n[2]

\* C16 witness: a read-only drain resumed a coroutine that requested a
\* read-write callback, and the next-time callback it registered has fired.
C16_Witness ==
    /\ \E r \in trace.rolog : r.req /\ r.nt = 1
    /\ trace.ntlog # {}

\* C17: an assignment to the .value of a handle changes no signal, timer,
\* edge registration or ready-queue entry and does not suspend the caller;
\* it appends exactly its (handle, value) request at the tail of the
\* pending-write queue, and after it a read-write callback is registered
\* or, inside a read-only phase, need_rw_after_ro is set and none is added.
C17_DeferredAssignment ==
    \A a \in trace.assign : a[2]

\* C17 witness: assignments have been executed in a drain of the start of
\* simulation, of a read-write callback, of an edge callback and of a
\* read-only callback.
C17_Witness ==
    {a[1] : a \in trace.assign} = {"start", "rw", "edge", "ro"}

\* C18: a parent that spawned two children, each writing a different
\* signal and both completing in one drain, and that has awaited the first
\* JoinHandle and then the second, is resumed after each await, reads both
\* written values, and each child frame was destroyed exactly once and
\* never touched after its destruction.
C18_SiblingJoins ==
    /\ \A o \in trace.obs : o[1] = "test_siblings" => o[3] = 1
    /\ \A p \in FramesOf("test_siblings") :
          frames[p].prog = "test_siblings" /\ frames[p].pc >= 5 =>
              /\ frames[p].awaiting = 0
              /\ \A c \in FramesOf("test_siblings") :
                    /\ frames[c].prog \in {"c_write", "c_write_g"}
                    /\ frames[c].test = frames[p].test
                    => /\ frames[c].destroyed = 1
                       /\ \A e \in trace.ub : e[2] # c

\* C19: for one child body and one state of the scheduler and the
\* simulator, `co_await child(dut)` and `auto j = start_soon(child(dut));
\* co_await j;` apply the same sequence of (time, signal, value) writes to
\* the simulator and resume the parent at the same time and in the same
\* phase: any two completed awaits of the same body that began in equal
\* states have equal logs.
C19_DirectAwaitEqualsSpawnAwait ==
    \A a, b \in trace.segs :
        a.key = b.key /\ a.snap = b.snap => a.log = b.log

\* C19 witness: a direct await and a spawn-then-await of the same body,
\* begun in equal states, have both completed after the body's writes were
\* applied.
C19_Witness ==
    \E a, b \in trace.segs :
        /\ a.prog = "test_direct_toggle" /\ b.prog = "test_spawn_toggle"
        /\ a.snap = b.snap
        /\ Len(a.log) >= 3

\* delay * 10^(unit - precision) ticks, truncated toward zero; delay ticks
\* for the unit step
ExactTicks(delay, unit, precision) ==
    IF unit = "step" THEN delay
    ELSE LET e == UnitExp(unit) - precision
         IN  IF e >= 0 THEN Mul(delay, Pow10Bits(e))
             ELSE DivMod(delay, Pow10Bits(-e)).q

\* C20: for every delay and every unit and precision among fs, ps, ns, us,
\* ms, Timer(delay, unit) registers a timed callback of exactly
\* delay * 10^(unit - precision) ticks, truncated toward zero when the unit
\* is below the precision, and Timer(delay, step) registers exactly delay
\* ticks; stated for the delays whose tick count fits a uint64_t.
C20_TimerUnitConversion ==
    conv.done =>
        LET x == ExactTicks(conv.delay, conv.unit, conv.precision)
        IN  Len(x) <= Uint64Bits => conv.ticks = x

\* C21: a coroutine that awaits a Timer of n > 0 ticks at time t is resumed
\* at time t + n exactly, and a join waiter bounced through a zero-tick
\* timer is resumed at the time the joined coroutine completed: neither
\* the read-write callback that follows the timer callback nor the bounce
\* adds simulation time.
C21_TimerAddsExactDelay ==
    \A e \in trace.timer_at :
        /\ e[1] = "timer" /\ e[2] > 0 => e[3] = e[2]
        /\ e[1] = "bounce" => e[3] = 0

\* a Timer of two ticks has resumed its coroutine and a join waiter has
\* come back from its bounce
C21_Witness ==
    /\ <<"timer", 2, 2>> \in trace.timer_at
    /\ \E e \in trace.timer_at : e[1] = "bounce"

\* the frame of the test function of test number i
TopFrame(i) == Min({h \in 1..Len(frames) : frames[h].test = i})

\* <<target, waiter>>: the waiter came back from a join on a target that
\* had ended in an exception
Rethrows ==
    {<<j.target, j.waiter>> : j \in {x \in trace.joins : x.alive /\ x.exc}}

\* the frames an exception captured in a frame of S reaches through at most
\* n joins
RECURSIVE Propagated(_, _)
Propagated(S, n) ==
    IF n = 0 THEN S
    ELSE Propagated(S \cup {p[2] : p \in {q \in Rethrows : q[1] \in S}},
                    n - 1)

\* C22: a waiter that comes back from a join on a coroutine that ended in an
\* exception ends in that exception itself (same message); when the
\* exception of a frame reaches the test's own frame through a chain of
\* joins, the test is recorded as failed with that message; and the
\* process never exits but through report_results.
C22_ExceptionPropagation ==
    /\ \A j \in trace.joins : j.alive /\ j.exc => j.rethrown
    /\ \A i \in 1..Len(results) :
          \A t \in 1..Len(frames) :
              /\ frames[t].test = i
              /\ frames[t].exception_
              /\ TopFrame(i) \in Propagated({t}, Len(frames))
              => /\ ~results[i].passed
                 /\ results[i].error_message = frames[t].what
    /\ exit_code # 0 => report_calls > 0

\* the exception thrown by c_throw went through two joins to the test's
\* frame and the test was recorded as failed with its message
C22_Witness ==
    /\ Len(results) >= 1
    /\ tests[1].fn = "test_chain_throw"
    /\ Cardinality({p \in Rethrows : frames[p[1]].test = 1}) = 2
    /\ ~results[1].passed
    /\ results[1].error_message = "c_throw"

\* C23: once a waiter has come back from a join on which it was suspended,
\* the frame of the joined coroutine has been destroyed exactly once,
\* whether the coroutine returned or ended in an exception.
C23_JoinedFrameReclaimed ==
    \A j \in trace.joins :
        j.suspended /\ j.alive => frames[j.target].destroyed = 1

\* the tests whose test function returned a coroutine that has been started
StartedTests ==
    {i \in 1..Len(tests) : \E h \in 1..Len(frames) : frames[h].test = i}

\* C24: the frame of a test function is never marked cancelled; it is alive
\* and undestroyed until its test is reported, and once the test is
\* reported it has been destroyed exactly once, during that test, is not in
\* the active set, and no access to it after its destruction was made.
C24_TestFrameSurvivesSweep ==
    \A i \in StartedTests :
        LET h == TopFrame(i)
        IN  /\ ~frames[h].cancelled
            /\ i > Len(results)
               => frames[h].alive /\ frames[h].destroyed = 0
            /\ i <= Len(results)
               => /\ ~frames[h].alive /\ frames[h].destroyed = 1
                  /\ frames[h].dtest = i
                  /\ h \notin active_coroutines
                  /\ \A e \in trace.ub : e[2] # h

\* a test was reported whose teardown sweep cancelled and destroyed another
\* coroutine of the test
C24_Witness ==
    \E i \in StartedTests :
        /\ i <= Len(results)
        /\ frames[TopFrame(i)].destroyed = 1
        /\ \E h \in 1..Len(frames) :
              /\ frames[h].test = i /\ h # TopFrame(i)
              /\ frames[h].cancelled /\ frames[h].destroyed = 1

\* what every refused registration left behind: the callback record freed
\* once, the continuation in the ready queue once and in no simulator
\* registration, and a read-write callback registered (or, in a read-only
\* phase, noted for the next time step)
RefusalsHandled ==
    \A e \in trace.refusals :
        e.freed = 1 /\ e.queued = 1 /\ ~e.registered /\ e.rw

\* C25 as stated: after a refused registration the record is freed once,
\* the continuation is queued with a read-write callback requested, and
\* when the callback that made the registration returns the continuation
\* has been resumed.
C25_RefusedThenResumed ==
    /\ RefusalsHandled
    /\ ~aborted => \A h \in 1..Len(frames) : frames[h].refused # "wait"

\* C25 (amended): as above, except that a continuation whose coroutine was
\* cancelled before its turn in the ready queue came is destroyed there
\* and never resumed.
C25_RefusedThenResumedOrCancelled ==
    /\ RefusalsHandled
    /\ ~aborted =>
          \A h \in 1..Len(frames) :
              frames[h].refused = "wait"
              => frames[h].cancelled /\ ~frames[h].alive

\* a refused timed registration and a refused value-change registration
\* have each been followed by the resumption of the coroutine
C25_Witness ==
    /\ trace.refusals # {}
    /\ \E h \in 1..Len(frames) :
          /\ frames[h].refused = "resumed"
          /\ frames[h].prog = "test_clock"
          /\ \E e \in trace.refusals : e.kind = "edge"

\* C26: when a test function throws, the catch block appends exactly one
\* result, failed and under that test's name, and leaves the ready queue,
\* the pending writes, the active set, the frames and the simulator's
\* registrations as they were; no coroutine of that test exists; and the
\* runner does not stay at that test: when the callback returns, the next
\* test has been started or, after the last test, the report was made.
C26_ConstructionException ==
    /\ \A e \in trace.ctor :
          /\ Len(e.added) = 1
          /\ e.added[1].name = tests[e.test].name /\ ~e.added[1].passed
          /\ e.kept
    /\ \A i \in 1..Len(tests) :
          CtorThrows(tests[i].fn) =>
              /\ i \notin StartedTests
              /\ i <= Len(results) =>
                     results[i].name = tests[i].name /\ ~results[i].passed
              /\ started /\ ~aborted /\ current_test_index >= i
                 => /\ Len(results) >= i
                    /\ i < Len(tests) => current_test_index > i
                    /\ i = Len(tests) => report_calls = 1

\* the second test function threw while a handle of the first test was still
\* in the active set; the catch block left it there, and the report followed
C26_Witness ==
    /\ \E e \in trace.ctor : e.test = 2 /\ ~e.idle /\ e.kept
    /\ Len(tests) = 2
    /\ Len(results) = 2 /\ ~results[2].passed
    /\ report_calls = 1

\* C27: for one Handle object and every name, the calls handle[name] issue
\* at most one gpi_get_handle_by_name query in total, whether or not the
\* name resolves, and all of them return the same handle.
C27_LookupMemoized ==
    \A n \in Names :
        /\ dut.queries[n] <= 1
        /\ \A i \in 1..Len(dut.returned[n]) :
              dut.returned[n][i] = dut.returned[n][1]

\* C28: when a coroutine with a join waiter completes in a flushing drain
\* while writes are queued, the writes are applied there and the waiter is
\* not put in the ready queue but registered with a zero-tick timer; a
\* waiter that comes back from a join after such a timer fired is resumed
\* in a drain of a read-write callback, and the joined frame is alive then.
C28_ZeroTickBounce ==
    /\ \A b \in trace.bounces : b.applied /\ ~b.queued /\ b.timer
    /\ \A j \in trace.joins :
          j.bounced => j.ctx = "rw" /\ j.flush /\ j.alive

\* C29: a frame to which a JoinHandle that was neither joined nor dropped
\* refers (a local of a live coroutine body) has not been destroyed; and
\* no JoinHandle destructor and no join has touched a destroyed frame.
C29_JoinHandleOwnership ==
    /\ \A p \in 1..Len(frames) :
          \A k \in 1..NSlots :
              /\ frames[p].alive
              /\ frames[p].jh[k].h # 0
              /\ ~frames[p].jh[k].joined
              => frames[frames[p].jh[k].h].alive
    /\ \A e \in trace.ub :
          e[1] \notin {"drop_after_destroy", "join_after_destroy"}

\* C30: whatever the path (a cancelled frame popped by run_ready, a detached
\* coroutine completing without waiter, a waiter's await_resume,
\* on_test_complete, the sweep of cancel_all_coroutines), no coroutine frame
\* is destroyed more than once.
C30_NoDoubleDestruction ==
    \A h \in 1..Len(frames) : frames[h].destroyed <= 1

\* C31: every handle in the active-coroutine set refers to a frame that has
\* not been destroyed, and cancel_all_coroutines has never inspected or
\* marked a destroyed frame.
C31_ActiveSetHygiene ==
    /\ \A h \in active_coroutines : frames[h].alive
    /\ \A e \in trace.ub : e[1] # "active_set_dangling"

\* the simulator has nothing left to fire: no read-write, read-only or
\* next-time callback is registered, no timer is pending and no
\* value-change callback is due
SimulatorIdle ==
    /\ started
    /\ ~StepBusy
    /\ ro_regs = 0 /\ nt_regs = 0
    /\ timers = <<>>

\* frame h is the continuation of a value-change callback that is registered

\* C32: with a simulator that fires every registered callback, every frame
\* that is marked cancelled is eventually destroyed, a frame suspended on a
\* join included: once the simulator has fired everything that was
\* registered and the process is still running, no frame marked cancelled is
\* left alive.  Stated for the frames that do not wait for a rising edge
\* (which the design may never produce).
C32_CancellationEventual ==
    SimulatorIdle /\ exit_code = 0 /\ ~aborted =>
        \A h \in 1..Len(frames) :
            frames[h].cancelled /\ frames[h].alive =>
                       \E i \in 1..Len(edges) : edges[i].coro = h

\* frame h was destroyed by cancellation (while suspended in its body, by
\* run_ready's cancelled path) or by test teardown (the frame of a test
\* function, destroyed by on_test_complete)
Stale(h) ==
    /\ ~frames[h].alive
    /\ \/ ~frames[h].done
       \/ h = TopFrame(frames[h].test)

\* C33: no timer or edge callback record that is registered refers to a
\* frame destroyed by cancellation or by test teardown, so no trampoline
\* enqueues such a frame; and run_ready has never dequeued one.
C33_StaleCallbackTolerance ==
    /\ \A i \in 1..Len(timers) : ~Stale(timers[i].coro)
    /\ \A i \in 1..Len(edges) : ~Stale(edges[i].coro)
    /\ \A i \in 1..Len(ready) : ~Stale(ready[i])
    /\ \A e \in trace.ub :
          e[1] \in {"ready_queue_dangling", "resume_after_destroy"}
          => ~Stale(e[2])

\* a coroutine of test 1 that was suspended when the test was torn down was
\* enqueued by the callback of its trigger while test 2 ran and destroyed
\* when run_ready dequeued it; the frame of test 1 itself was destroyed by
\* the teardown, and test 2 has run to its end
C33_Witness ==
    /\ Len(results) = 2
    /\ 1 \in StartedTests
    /\ Stale(TopFrame(1))
    /\ \E h \in 1..Len(frames) :
          /\ Stale(h) /\ ~frames[h].done /\ frames[h].cancelled
          /\ frames[h].test = 1 /\ frames[h].dtest = 2
          /\ frames[h].destroyed = 1

\* C34: while the process runs, every call of run_ready has returned with
\* an empty ready queue (the entries found when control is at the simulator
\* are those a timer trampoline added since); rw_cb_pending is set only
\* while a read-write callback is registered; whenever the ready queue or
\* the pending-write queue is non-empty, a read-write callback, or a
\* next-time callback that leads to one, is registered; hence, once the
\* simulator has fired every callback, both queues are empty.
C34_NoLostWakeup ==
    exit_code = 0 /\ ~aborted =>
        /\ \A i \in 1..Len(ready) : frames[ready[i]].twake
        /\ rw_cb_pending => rw_regs >= 1
        /\ ready # <<>> \/ pending_writes # <<>>
           => rw_regs > 0 \/ nt_regs > 0 \/ nt_due > 0
        /\ SimulatorIdle => ready = <<>> /\ pending_writes = <<>>

\* control is at the simulator with a continuation in the ready queue and a
\* write queued, after a read-only drain has deferred a request to a
\* next-time callback and that callback has fired
C34_Witness ==
    /\ exit_code = 0 /\ ~aborted
    /\ ready # <<>>
    /\ pending_writes # <<>>
    /\ rw_regs >= 1
    /\ \E r \in trace.rolog : r.req /\ r.nt = 1
    /\ trace.ntlog # {}

\* C35: the (handle, value) requests passed to queue_write and not yet
\* passed to gpi_set_signal_value_int are exactly the pending-write queue,
\* in order, and every call of gpi_set_signal_value_int was made with the
\* oldest such request: nothing is dropped, duplicated or reordered; and
\* when the run is over (the process has exited, or the simulator has
\* nothing left to fire) every request has been applied.
C35_WritesFifoOnce ==
    ~aborted =>
        /\ ~trace.wbad
        /\ trace.wfifo = pending_writes
        /\ exit_code # 0 \/ SimulatorIdle => pending_writes = <<>>

\* two requests for different signals are queued after an earlier flush has
\* applied a request
C35_Witness ==
    /\ ~aborted
    /\ Len(pending_writes) >= 2
    /\ pending_writes[1] # pending_writes[2]
    /\ \E sg \in Signals : sig[sg] = 1

\* C36: no coroutine frame has both completed and cancelled set: neither
\* the drop of an unjoined JoinHandle nor the teardown sweep has set
\* cancelled in the promise of a coroutine that had completed (the promise
\* of a destroyed frame keeps what was last written to it).
C36_PromiseFlagInvariant ==
    \A h \in 1..Len(frames) :
        ~(frames[h].completed /\ frames[h].cancelled)

\* C37: a join that suspends on a task that was never spawned puts the task
\* in the ready queue exactly once and registers it as active; a join that
\* suspends on the JoinHandle of a spawned task does not enqueue the task;
\* and no handle is held more than once by the ready queue and the
\* outstanding timer and edge callback records together.
C37_ImplicitScheduling ==
    /\ \A e \in trace.jsusp :
          IF e.spawned THEN e.added = 0 ELSE e.added = 1 /\ e.active
    /\ \A h \in 1..Len(frames) :
          Occurrences(ready, h)
          + Cardinality({i \in 1..Len(timers) : timers[i].coro = h})
          + Cardinality({i \in 1..Len(edges) : edges[i].coro = h}) <= 1

\* C38: a resumption of the Clock coroutine queues one write to clk and then
\* suspends on its Timer, whatever period >= 1 and unit it was started with:
\* no second write is queued before the first is flushed, and once a write
\* is queued the running coroutine is at a co_await of a Timer that is not
\* ready, so the drain that resumed it ends.
C38_ClockAlwaysYields ==
    /\ Len(pending_writes) <= 1
    /\ \A i \in 1..Len(pending_writes) : pending_writes[i][1] = "clk"
    /\ ClockRunning /\ pending_writes # <<>> =>
           LET at == Prog("Clock")[frames[ClockFrame].pc]
           IN  at.op = "timer" /\ at.a # 0

\* a token of kind "timer" whose payload is (delay, unit name), the delay a
\* non-negative integer and the name that of a unit; or of kind edge_kind
\* whose payload is a path that resolves; or of kind "op" whose payload
\* carries an op state that holds a coroutine
WellFormed(tk, edge_kind) ==
    /\ tk.kind_type = "str"
    /\ \/ /\ tk.kind = "timer"
          /\ tk.payload.type = "tuple" /\ Len(tk.payload.items) = 2
          /\ tk.payload.items[1].type = "int" /\ tk.payload.items[1].n >= 0
          /\ tk.payload.items[2].type = "str"
          /\ tk.payload.items[2].s \in UnitNames
       \/ /\ tk.kind = edge_kind
          /\ tk.payload.type = "str"
          /\ ResolveHandleFromPath(tk.payload.path).valid
       \/ /\ tk.kind = "op"
          /\ tk.payload.type = "capsule"
          /\ tk.payload.op.named /\ ~tk.payload.op.null
          /\ tk.payload.op.handle

\* the native trigger that corresponds to a well-formed token
ExpectedTrigger(tk) ==
    IF tk.kind = "timer"
    THEN [NoTrigger EXCEPT !.kind = "Timer",
                           !.delay = tk.payload.items[1].n,
                           !.unit = UnitExp(tk.payload.items[2].s)]
    ELSE IF tk.kind = "op"
    THEN [NoTrigger EXCEPT !.kind = "join", !.op_state = tk.payload.op]
    ELSE [NoTrigger EXCEPT !.kind = "RisingEdge",
                           !.hdl = ResolveHandleFromPath(tk.payload.path)]

\* the translation of every token handed to the runner so far, the edge
\* tokens being those of kind edge_kind
TokenTranslation(edge_kind) ==
    \A i \in 1..Len(bridge.log) :
        LET e  == bridge.log[i]
            tk == e.token
        IN  IF WellFormed(tk, edge_kind)
            THEN /\ e.trigger = ExpectedTrigger(tk)
                 /\ e.state = "awaiting" => i = Len(bridge.log)
                                            /\ bridge.pc = "await"
                 /\ e.state = "failed" <=>
                        tk.kind = "op" /\ tk.payload.op.fails
                        /\ ~(i = Len(bridge.log) /\ bridge.pc = "await")
                 /\ e.state = "resumed" /\ tk.kind = "op"
                    /\ tk.payload.op.result_kind = "U32"
                        => e.sent = PyObj("int", tk.payload.op.value_u32, "")
                 /\ e.state = "resumed" /\ (tk.kind # "op"
                       \/ tk.payload.op.result_kind = "None")
                        => e.sent = PyObj("none", 0, "")
            ELSE /\ e.trigger = NoTrigger
                 /\ e.state = "failed"
                 /\ i = Len(bridge.log) /\ bridge.pc = "failed"

\* C39 as stated: tokens of kind "timer", "edge" and "op" with a well-formed
\* payload are awaited as the corresponding native trigger and the script is
\* then resumed; every other token fails the test without any trigger.
C39_AsStated == TokenTranslation("edge")

\* C39: for every yielded token of kind "timer", "rising_edge" or "op" with
\* a well-formed payload (a non-negative delay and the name of a unit; a
\* path that resolves; an op state that holds a coroutine) the runner awaits
\* the corresponding native trigger (Timer, RisingEdge on the resolved
\* handle, join of the op's coroutine) and then resumes the script with the
\* result, unless the op recorded an error, which fails the test; a token of
\* any other kind, or with a malformed payload, raises an error that fails
\* the test without awaiting any trigger.
C39_BridgeTokenTranslation == TokenTranslation("rising_edge")

C39_Witness ==
    /\ bridge.pc = "failed"
    /\ Len(bridge.log) = 2
    /\ bridge.log[1].token.kind = "rising_edge"
    /\ bridge.log[1].trigger.kind = "RisingEdge"
    /\ bridge.log[1].trigger.hdl.at = <<"clk">>
    /\ bridge.log[1].state = "resumed"
    /\ bridge.log[2].token.kind = "edge"
    /\ bridge.log[2].token.payload.path = <<"dut", "clk">>
    /\ bridge.log[2].trigger = NoTrigger

=============================================================================
